---- MODULE Spec2Model ----
(***************************************************************************)
(* A model of PapperMate's contract parsing and entity reconciliation.     *)
(*                                                                         *)
(* Texts are sequences of one-character strings, so that lower(), strip(), *)
(* re.sub() and float() are modelled by what they do to the characters.    *)
(* Each part of the program has a specification of its own (SpecDedup,     *)
(* SpecAmount, ...); the variables of the other parts stay at their        *)
(* initial value there.                                                    *)
(***************************************************************************)
EXTENDS Integers, Sequences, FiniteSets, TLC

VARIABLES
    entities,         \* extract_entities' local list `entities` (sorted in place by the dedup)
    candidates,       \* the list as it was handed to _deduplicate_entities
    unique_entities,  \* the list _deduplicate_entities returned
    dedup_pc,         \* "collect" while passes extend the list, "done" after the dedup
    amount_str,       \* the string handed to _parse_amount, and an AMOUNT entity's text
    amount,           \* what _parse_amount returned
    normalized_text,  \* what _normalize_entity_text returned for the AMOUNT entity
    amount_pc,        \* "input", then "parsed" or "normalized"
    models,           \* the extractor's attributes bert_ner, roberta_classifier, sentence_model
    openai_jsonl_dir, \* whether the extractor was given a directory of mined patterns
    found,            \* the entities each running pass has built so far
    failed,           \* the passes that raised at run time
    extracted,        \* extract_entities' list `entities`
    final_entities,   \* the entities of the ContractEntities returned
    extract_pc,       \* the position in __init__ and extract_entities
    doc,              \* the file a parse reads: its path, its kind, its text or its blocks
    clock,            \* the wall clock datetime.utcnow() and datetime.now() read
    hash_seed,        \* the running process's string hash seed
    dates,            \* what a direct call of _extract_dates on the text returned
    metadata,         \* the metadata of the last parse
    contracts,        \* the Contract records the parses returned, oldest first
    parse_pc,         \* "input", "dates" after _extract_dates, "parsed" after a parse
    contract,         \* the Contract instance handed to the validator
    outcome,          \* what validate_contract did: the list it returned, or that it raised
    summary,          \* what get_validation_summary did
    validate_pc,      \* "ready" with a Contract at hand, "validated", "summarized"
    pdf_paths,        \* the paths handed to process_multiple_contracts or batch_analyze
    max_contracts,    \* process_multiple_contracts' max_contracts
    selected_paths,   \* the paths the batch goes through
    attempted,        \* the paths whose processing was started, in the order of the progress log
    operations,       \* process_multiple_contracts' list operations
    failed_contracts, \* process_multiple_contracts' list failed_contracts
    results,          \* batch_analyze's list results
    batch_pc,         \* "process" or "analyze" inside the loop, "done" after it
    contract_text,    \* the text extracted from the document handed to the LLM
    llm_content,      \* response.choices[0].message.content, or that the API call raised
    analysis,         \* what the entry point returned, or that it raised
    llm_pc,           \* "asked" with a response at hand, "done" after an entry point ran
    client,           \* the handler's attribute client: never assigned, None, or a translation client
    filename,         \* the filename handed to sanitize_filename
    sanitized,        \* what sanitize_filename did: the triple it returned, or that it raised
    sanitize_pc,      \* "new" before the services are initialised, "ready", "sanitized"
    file_system,      \* what each path of the disk holds
    called_paths,     \* the source files process_contract was called with
    operations_log,   \* SmartContractProcessor.operations_log
    organize_pc,      \* where the organizer is
    translation_client,\* FileHandler.client: unset, None or a client
    max_retries,      \* FileHandler.max_retries
    current_time,              \* datetime.now(), in hours
    translation_queue,\* FileHandler.translation_queue
    disk,             \* the files of the working and the temp directory
    original,         \* the file handed to process_file_safely
    safe_path,        \* the safe copy's name in the temp directory
    processor_result, \* what the processor function returned
    safe_result,      \* what process_file_safely returned
    handler_pc,       \* where the file handler is
    chunk_input,      \* the text handed to _chunk_text
    max_length,       \* the max_length handed to _chunk_text
    chunks,           \* what _chunk_text returned
    chunk_pc          \* where the chunker is

dedupVars == <<entities, candidates, unique_entities, dedup_pc>>
amountVars == <<amount_str, amount, normalized_text, amount_pc>>

extractVars == <<models, openai_jsonl_dir, found, failed, extracted, final_entities, extract_pc>>

parseVars == <<doc, clock, hash_seed, dates, metadata, contracts, parse_pc>>

validateVars == <<contract, outcome, summary, validate_pc>>

batchVars == <<pdf_paths, max_contracts, selected_paths, attempted, operations, failed_contracts, results, batch_pc>>

llmVars == <<contract_text, llm_content, analysis, llm_pc>>

sanitizeVars == <<client, filename, sanitized, sanitize_pc>>

organizeVars == <<file_system, called_paths, operations_log, organize_pc>>

handlerVars == <<translation_client, max_retries, current_time, translation_queue, disk, original, safe_path, processor_result, safe_result, handler_pc>>

chunkVars == <<chunk_input, max_length, chunks, chunk_pc>>

vars == <<dedupVars, amountVars, extractVars, parseVars, validateVars, batchVars, llmVars, sanitizeVars, organizeVars, handlerVars, chunkVars>>

\* The variables a part of the program leaves alone
notDedupVars == <<amountVars, extractVars, parseVars, validateVars, batchVars, llmVars, sanitizeVars, organizeVars, handlerVars, chunkVars>>
notAmountVars == <<dedupVars, extractVars, parseVars, validateVars, batchVars, llmVars, sanitizeVars, organizeVars, handlerVars, chunkVars>>
notExtractVars == <<dedupVars, amountVars, parseVars, validateVars, batchVars, llmVars, sanitizeVars, organizeVars, handlerVars, chunkVars>>
notParseVars == <<dedupVars, amountVars, extractVars, validateVars, batchVars, llmVars, sanitizeVars, organizeVars, handlerVars, chunkVars>>
notValidateVars == <<dedupVars, amountVars, extractVars, parseVars, batchVars, llmVars, sanitizeVars, organizeVars, handlerVars, chunkVars>>
notBatchVars == <<dedupVars, amountVars, extractVars, parseVars, validateVars, llmVars, sanitizeVars, organizeVars, handlerVars, chunkVars>>
notLlmVars == <<dedupVars, amountVars, extractVars, parseVars, validateVars, batchVars, sanitizeVars, organizeVars, handlerVars, chunkVars>>
notSanitizeVars == <<dedupVars, amountVars, extractVars, parseVars, validateVars, batchVars, llmVars, organizeVars, handlerVars, chunkVars>>
notOrganizeVars == <<dedupVars, amountVars, extractVars, parseVars, validateVars, batchVars, llmVars, sanitizeVars, handlerVars, chunkVars>>
notHandlerVars == <<dedupVars, amountVars, extractVars, parseVars, validateVars, batchVars, llmVars, sanitizeVars, organizeVars, chunkVars>>
notChunkVars == <<dedupVars, amountVars, extractVars, parseVars, validateVars, batchVars, llmVars, sanitizeVars, organizeVars, handlerVars>>

\* ------------------------------------------------------- the parts at rest

Pending == [kind |-> "pending"]

DedupIdle ==
    /\ entities = <<>>
    /\ candidates = <<>>
    /\ unique_entities = <<>>
    /\ dedup_pc = "idle"

AmountIdle ==
    /\ amount_str = <<>>
    /\ amount = Pending
    /\ normalized_text = <<>>
    /\ amount_pc = "idle"

Passes == {"bert", "roberta", "domain"}

ExtractIdle ==
    /\ models = [p \in Passes |-> "unset"]
    /\ openai_jsonl_dir = FALSE
    /\ found = [p \in Passes |-> <<>>]
    /\ failed = {}
    /\ extracted = <<>>
    /\ final_entities = <<>>
    /\ extract_pc = "idle"

ParseIdle ==
    /\ doc = [kind |-> "none"]
    /\ clock = 0
    /\ hash_seed = 0
    /\ dates = <<>>
    /\ metadata = <<>>
    /\ contracts = <<>>
    /\ parse_pc = "idle"

ValidateIdle ==
    /\ contract = [kind |-> "none"]
    /\ outcome = Pending
    /\ summary = Pending
    /\ validate_pc = "idle"

BatchIdle ==
    /\ pdf_paths = <<>>
    /\ max_contracts = 0
    /\ selected_paths = <<>>
    /\ attempted = <<>>
    /\ operations = <<>>
    /\ failed_contracts = <<>>
    /\ results = <<>>
    /\ batch_pc = "idle"

LlmIdle ==
    /\ contract_text = <<>>
    /\ llm_content = Pending
    /\ analysis = Pending
    /\ llm_pc = "idle"

SanitizeIdle ==
    /\ client = "unset"
    /\ filename = <<>>
    /\ sanitized = Pending
    /\ sanitize_pc = "idle"

OrganizeIdle ==
    /\ file_system = <<>>
    /\ called_paths = {}
    /\ operations_log = <<>>
    /\ organize_pc = "idle"

HandlerIdle ==
    /\ translation_client = "unset"
    /\ max_retries = 0
    /\ current_time = 0
    /\ translation_queue = <<>>
    /\ disk = {}
    /\ original = <<>>
    /\ safe_path = <<>>
    /\ processor_result = Pending
    /\ safe_result = Pending
    /\ handler_pc = "idle"

ChunkIdle ==
    /\ chunk_input = <<>>
    /\ max_length = 0
    /\ chunks = Pending
    /\ chunk_pc = "idle"

\* ---------------------------------------------------------------- strings

Range(s) == {s[i] : i \in 1..Len(s)}

Whitespace == {" ", "\t", "\n"}

UpperToLower ==
    [c \in {"A", "B", "C", "D", "E", "F", "G", "H", "I", "J", "K", "L", "M", "N", "O", "P", "Q", "R", "S", "T", "U", "V", "W", "X", "Y", "Z"} |->
        CASE c = "A" -> "a"
          [] c = "B" -> "b"
          [] c = "C" -> "c"
          [] c = "D" -> "d"
          [] c = "E" -> "e"
          [] c = "F" -> "f"
          [] c = "G" -> "g"
          [] c = "H" -> "h"
          [] c = "I" -> "i"
          [] c = "J" -> "j"
          [] c = "K" -> "k"
          [] c = "L" -> "l"
          [] c = "M" -> "m"
          [] c = "N" -> "n"
          [] c = "O" -> "o"
          [] c = "P" -> "p"
          [] c = "Q" -> "q"
          [] c = "R" -> "r"
          [] c = "S" -> "s"
          [] c = "T" -> "t"
          [] c = "U" -> "u"
          [] c = "V" -> "v"
          [] c = "W" -> "w"
          [] c = "X" -> "x"
          [] c = "Y" -> "y"
          [] c = "Z" -> "z"]

\* str.lower()
Lower(s) == [i \in 1..Len(s) |-> IF s[i] \in DOMAIN UpperToLower THEN UpperToLower[s[i]] ELSE s[i]]

RECURSIVE LStrip(_)
LStrip(s) == IF s # <<>> /\ Head(s) \in Whitespace THEN LStrip(Tail(s)) ELSE s

RECURSIVE RStrip(_)
RStrip(s) ==
    IF s # <<>> /\ s[Len(s)] \in Whitespace THEN RStrip(SubSeq(s, 1, Len(s) - 1)) ELSE s

\* str.strip()
Strip(s) == RStrip(LStrip(s))

\* re.sub(r'[...]', '', s) and str.replace(c, ''): the characters in `drop` are deleted
Delete(s, drop) == SelectSeq(s, LAMBDA c : c \notin drop)

\* re.sub(r'[^...]+', '', s): only the characters in `keep` stay
Keep(s, keep) == SelectSeq(s, LAMBDA c : c \in keep)

\* str.replace(a, b) for single characters
Replace(s, a, b) == [i \in 1..Len(s) |-> IF s[i] = a THEN b ELSE s[i]]

\* ------------------------------------------------------------------ float

Digits == {"0", "1", "2", "3", "4", "5", "6", "7", "8", "9"}

DigitVal ==
    [c \in Digits |->
        CASE c = "0" -> 0 [] c = "1" -> 1 [] c = "2" -> 2 [] c = "3" -> 3 [] c = "4" -> 4
          [] c = "5" -> 5 [] c = "6" -> 6 [] c = "7" -> 7 [] c = "8" -> 8 [] c = "9" -> 9]

DigitChar == [d \in 0..9 |-> CHOOSE c \in Digits : DigitVal[c] = d]

IsDigits(s) == \A i \in 1..Len(s) : s[i] \in Digits

\* int(s) for a digit string; "" gives 0
RECURSIVE IntOf(_)
IntOf(s) == IF s = <<>> THEN 0 ELSE 10 * IntOf(SubSeq(s, 1, Len(s) - 1)) + DigitVal[s[Len(s)]]

\* str(n) for n >= 0
RECURSIVE StrOfNat(_)
StrOfNat(n) == IF n < 10 THEN <<DigitChar[n]>> ELSE StrOfNat(n \div 10) \o <<DigitChar[n % 10]>>

Zeros(n) == [i \in 1..n |-> "0"]

\* The longest prefix of s made of digits
RECURSIVE DigitPrefixLen(_)
DigitPrefixLen(s) == IF s # <<>> /\ Head(s) \in Digits THEN 1 + DigitPrefixLen(Tail(s)) ELSE 0

Drop(s, n) == SubSeq(s, n + 1, Len(s))
Take(s, n) == SubSeq(s, 1, IF n <= Len(s) THEN n ELSE Len(s))

\* The results of float(): a raised ValueError, or a float. A finite float is
\* (-1)^neg * m * 10^e, where m is a digit string without leading or trailing
\* zeros (0 is m = "0", e = 0). Two decimal strings of at most 15 significant
\* digits give the same double exactly when they give the same (neg, m, e), but
\* for -0.0 (equal to 0.0 in Python, and a different record here).
ValueError == [kind |-> "ValueError"]
NaN == [kind |-> "nan"]
Inf(neg) == [kind |-> "inf", neg |-> neg]
Num(neg, m, e) == [kind |-> "num", neg |-> neg, m |-> m, e |-> e]
Zero(neg) == Num(neg, <<"0">>, 0)

RECURSIVE StripLeadingZeros(_)
StripLeadingZeros(s) == IF s # <<>> /\ Head(s) = "0" THEN StripLeadingZeros(Tail(s)) ELSE s

RECURSIVE TrailingZeros(_)
TrailingZeros(s) ==
    IF s # <<>> /\ s[Len(s)] = "0" THEN 1 + TrailingZeros(Take(s, Len(s) - 1)) ELSE 0

\* The first three digits of the digit string m, zero-padded on the right
Lead3(m) == IntOf(Take(m \o <<"0", "0">>, 3))

\* The decimal ds * 10^e rounded to a double: past the largest double
\* (1.797...e308) it is inf, under half the smallest (2.47...e-324) it is 0.
Rounded(neg, ds, e) ==
    LET d == StripLeadingZeros(ds)
        tz == TrailingZeros(d)
        m == Take(d, Len(d) - tz)
        e10 == Len(d) + e - 1
    IN  IF d = <<>> THEN Zero(neg)
        ELSE IF e10 > 308 \/ (e10 = 308 /\ Lead3(m) >= 180) THEN Inf(neg)
        ELSE IF e10 < -324 \/ (e10 = -324 /\ Lead3(m) < 247) THEN Zero(neg)
        ELSE Num(neg, m, e + tz)

\* The largest exponent the model computes with; a longer one is this one
HugeExponent == 99999

\* The exponent part of a float literal: "", or e/E, an optional sign, digits
ExponentOf(s) ==
    IF s = <<>> THEN [ok |-> TRUE, x |-> 0]
    ELSE IF Head(s) \notin {"e", "E"} THEN [ok |-> FALSE, x |-> 0]
    ELSE LET r == Tail(s)
             signed == r # <<>> /\ Head(r) \in {"+", "-"}
             ds == IF signed THEN Tail(r) ELSE r
             z == StripLeadingZeros(ds)
             x == IF Len(z) > 4 THEN HugeExponent ELSE IntOf(z)
         IN  IF ds = <<>> \/ ~IsDigits(ds) THEN [ok |-> FALSE, x |-> 0]
             ELSE [ok |-> TRUE, x |-> IF signed /\ Head(r) = "-" THEN 0 - x ELSE x]

\* An unsigned decimal literal: digits [. digits] [exponent], with a digit in it
UnsignedFloat(neg, s) ==
    LET il == DigitPrefixLen(s)
        ip == Take(s, il)
        r1 == Drop(s, il)
        dot == r1 # <<>> /\ Head(r1) = "."
        r2 == IF dot THEN Tail(r1) ELSE r1
        fl == IF dot THEN DigitPrefixLen(r2) ELSE 0
        fp == Take(r2, fl)
        r3 == Drop(r2, fl)
        x == ExponentOf(r3)
    IN  IF il + fl = 0 \/ ~x.ok THEN ValueError
        ELSE Rounded(neg, ip \o fp, x.x - fl)

\* Underscores may stand between digits only, and are dropped
UnderscoresOk(s) ==
    \A i \in 1..Len(s) : s[i] = "_" =>
        /\ i > 1 /\ s[i - 1] \in Digits
        /\ i < Len(s) /\ s[i + 1] \in Digits

\* Python's float(s) for a string
ParseFloat(s) ==
    LET t == Strip(s)
        u == Delete(t, {"_"})
        signed == u # <<>> /\ Head(u) \in {"+", "-"}
        neg == signed /\ Head(u) = "-"
        body == Lower(IF signed THEN Tail(u) ELSE u)
    IN  IF ~UnderscoresOk(t) THEN ValueError
        ELSE IF body \in {<<"i", "n", "f">>, <<"i", "n", "f", "i", "n", "i", "t", "y">>} THEN Inf(neg)
        ELSE IF body = <<"n", "a", "n">> THEN NaN
        ELSE UnsignedFloat(neg, body)

IsFinite(x) == x.kind = "num"

\* Python's str(x) for a float: positional for 1e-4 <= |x| < 1e16, else exponent form
FloatRepr(x) ==
    IF x.kind = "nan" THEN <<"n", "a", "n">>
    ELSE LET sign == IF x.neg THEN <<"-">> ELSE <<>>
         IN  IF x.kind = "inf" THEN sign \o <<"i", "n", "f">>
             ELSE LET n == Len(x.m)
                      e10 == n + x.e - 1
                      a == IF e10 < 0 THEN 0 - e10 ELSE e10
                      xs == StrOfNat(a)
                  IN  IF x.m = <<"0">> THEN sign \o <<"0", ".", "0">>
                      ELSE IF e10 < -4 \/ e10 >= 16
                          THEN sign \o <<Head(x.m)>>
                               \o (IF n > 1 THEN <<".">> \o Tail(x.m) ELSE <<>>)
                               \o <<"e", IF e10 < 0 THEN "-" ELSE "+">>
                               \o (IF Len(xs) < 2 THEN <<"0">> ELSE <<>>) \o xs
                      ELSE IF x.e >= 0 THEN sign \o x.m \o Zeros(x.e) \o <<".", "0">>
                      ELSE IF n > 0 - x.e
                          THEN sign \o Take(x.m, n + x.e) \o <<".">> \o Drop(x.m, n + x.e)
                      ELSE sign \o <<"0", ".">> \o Zeros(0 - x.e - n) \o x.m

\* ----------------------------------------------------------- parse_amount

\* The characters re.sub(r'[R$US$USD€£\s]', '', s) deletes
CurrencyChars == {"R", "$", "U", "S", "D", "€", "£"} \cup Whitespace

MutantCommaThousands(clean_amount) == Delete(clean_amount, {","})

\* The two branches on ',' and '.': '.' is a thousands separator only beside a ','
LocaleNormalise(clean_amount) ==
    IF "," \in Range(clean_amount) /\ "." \in Range(clean_amount)
    THEN Replace(Delete(clean_amount, {"."}), ",", ".")
    ELSE IF "," \in Range(clean_amount) THEN Replace(clean_amount, ",", ".")
    ELSE clean_amount

None == [kind |-> "None"]

\* ContractParser._parse_amount: None for a ValueError, the float otherwise
parse_amount(str) ==
    LET clean_amount == LocaleNormalise(Delete(str, CurrencyChars))
        x == ParseFloat(clean_amount)
    IN  IF x = ValueError THEN None ELSE x

\* -------------------------------------------------- _normalize_entity_text

DateTypes == {"START_DATE", "END_DATE", "SIGNATURE_DATE", "EFFECTIVE_DATE", "EXPIRATION_DATE"}

\* The characters re.sub(r'[^Vdt .,]+', '', text) keeps
AmountKeptChars == {"V", "d", "t", " ", ".", ","}

\* ---------------------------------------------------------------- dates

IsLeap(y) == (y % 4 = 0 /\ y % 100 # 0) \/ y % 400 = 0

DaysInMonth(y, m) ==
    IF m = 2 THEN (IF IsLeap(y) THEN 29 ELSE 28)
    ELSE IF m \in {4, 6, 9, 11} THEN 30 ELSE 31

\* datetime(year, month, day) raises ValueError outside these ranges
ValidDate(y, m, d) == y \in 1..9999 /\ m \in 1..12 /\ d >= 1 /\ d <= DaysInMonth(y, m)

Date(y, m, d) == [y |-> y, m |-> m, d |-> d]

NoDate == [y |-> 0, m |-> 0, d |-> 0]

DateLess(a, b) ==
    \/ a.y < b.y
    \/ a.y = b.y /\ a.m < b.m
    \/ a.y = b.y /\ a.m = b.m /\ a.d < b.d

Pad(s, n) == Zeros(n - Len(s)) \o s

\* strftime('%Y-%m-%d')
IsoFormat(dt) ==
    Pad(StrOfNat(dt.y), 4) \o <<"-">> \o Pad(StrOfNat(dt.m), 2) \o <<"-">> \o Pad(StrOfNat(dt.d), 2)

\* s split at the characters in `seps` (empty fields kept)
RECURSIVE SplitAt(_, _)
SplitAt(s, seps) ==
    LET RECURSIVE FieldLen(_)
        FieldLen(t) == IF t # <<>> /\ Head(t) \notin seps THEN 1 + FieldLen(Tail(t)) ELSE 0
        n == FieldLen(s)
    IN  IF n = Len(s) THEN <<s>> ELSE <<Take(s, n)>> \o SplitAt(Drop(s, n + 1), seps)

\* dateutil.parser.parse(text) for the two numeric shapes the model's texts have,
\* YYYY-MM-DD and NN/NN/YYYY (month first, unless only day first is a date); a
\* text with a letter is no date of dateutil's unless it spells a month, a
\* weekday or a time zone, and the model's texts with letters spell none.
DateutilParse(text) ==
    LET iso == SplitAt(text, {"-"})
        sl == SplitAt(text, {"/"})
        Num3(f, a, b, c) ==
            /\ Len(f) = 3
            /\ \A i \in 1..3 : f[i] # <<>> /\ IsDigits(f[i])
            /\ Len(f[1]) \in a /\ Len(f[2]) \in b /\ Len(f[3]) \in c
    IN  IF Num3(iso, {4}, {1, 2}, {1, 2}) /\ ValidDate(IntOf(iso[1]), IntOf(iso[2]), IntOf(iso[3]))
        THEN Date(IntOf(iso[1]), IntOf(iso[2]), IntOf(iso[3]))
        ELSE IF Num3(sl, {1, 2}, {1, 2}, {4}) /\ ValidDate(IntOf(sl[3]), IntOf(sl[1]), IntOf(sl[2]))
        THEN Date(IntOf(sl[3]), IntOf(sl[1]), IntOf(sl[2]))
        ELSE IF Num3(sl, {1, 2}, {1, 2}, {4}) /\ ValidDate(IntOf(sl[3]), IntOf(sl[2]), IntOf(sl[1]))
        THEN Date(IntOf(sl[3]), IntOf(sl[2]), IntOf(sl[1]))
        ELSE NoDate

\* ContractEntityExtractor._normalize_entity_text. In the AMOUNT branch `text` is
\* reassigned before float() is tried, so the fallback returns the rewritten text.
normalize_entity_text(entity) ==
    LET text == Strip(Lower(entity.text))
    IN  IF entity.entity_type \in DateTypes
        THEN LET dt == DateutilParse(text)
             IN  IF dt # NoDate THEN IsoFormat(dt) ELSE text
        ELSE IF entity.entity_type = "AMOUNT"
        THEN LET kept == Keep(text, AmountKeptChars)
                 swapped == Replace(Delete(kept, {"."}), ",", ".")
                 x == ParseFloat(swapped)
             IN  IF x # ValueError THEN FloatRepr(x) ELSE swapped
        ELSE text

\* --------------------------------------------------- _deduplicate_entities

\* The longest candidate list the passes hand to the dedup
MaxEntities == 3

\* Confidence scores, in hundredths
ConfidenceLevels == {70, 90}

\* The (text, entity_type) pairs the passes emit in the model: raw texts that
\* differ and normalise alike (by case and blanks, by the AMOUNT rewrite, by the
\* date format), and one text under two types.
CandidateTexts ==
    { <<<<"A", "c", "m", "e">>, "SUPPLIER">>,
      <<<<"a", "c", "m", "e", " ">>, "SUPPLIER">>,
      <<<<"A", "c", "m", "e">>, "CUSTOMER">>,
      <<<<"R", "$", " ", "1", ".", "0", "0", "0", ",", "5", "0">>, "AMOUNT">>,
      <<<<"2", ".", "0", "0", "0", ",", "7", "5">>, "AMOUNT">>,
      <<<<"2", "0", "2", "4", "-", "0", "1", "-", "0", "5">>, "START_DATE">>,
      <<<<"0", "1", "/", "0", "5", "/", "2", "0", "2", "4">>, "START_DATE">> }

Entity(text, entity_type, confidence) ==
    [text |-> text, entity_type |-> entity_type, confidence |-> confidence]

Entities == {Entity(t[1], t[2], c) : t \in CandidateTexts, c \in ConfidenceLevels}

MutantRawKey(entity) == <<entity.text, entity.entity_type>>

\* key = (normalized_text, entity.entity_type)
EntityKey(entity) == <<normalize_entity_text(entity), entity.entity_type>>

\* list.sort(key=confidence, reverse=True) is stable: an entity goes behind the
\* entities before it in the list whose confidence is not lower
RECURSIVE SortedInsert(_, _)
SortedInsert(sorted, e) ==
    IF sorted = <<>> THEN <<e>>
    ELSE IF Head(sorted).confidence >= e.confidence
         THEN <<Head(sorted)>> \o SortedInsert(Tail(sorted), e)
         ELSE <<e>> \o sorted

RECURSIVE StableSortDescending(_)
StableSortDescending(list) ==
    IF list = <<>> THEN <<>>
    ELSE SortedInsert(StableSortDescending(Take(list, Len(list) - 1)), list[Len(list)])

MutantNoSort(list) == list

MutantTiesReversed(list) ==
    StableSortDescending([i \in 1..Len(list) |-> list[Len(list) + 1 - i]])

\* entities.sort(key=lambda x: x.confidence, reverse=True)
SortByConfidence(list) == StableSortDescending(list)

\* The loop over the sorted list: an entity whose key was not seen is kept
RECURSIVE DedupLoop(_, _, _)
DedupLoop(rest, seen_normalized_keys, kept) ==
    IF rest = <<>> THEN kept
    ELSE LET key == EntityKey(Head(rest))
         IN  IF key \notin seen_normalized_keys
             THEN DedupLoop(Tail(rest), seen_normalized_keys \cup {key}, Append(kept, Head(rest)))
             ELSE DedupLoop(Tail(rest), seen_normalized_keys, kept)

\* ContractEntityExtractor._deduplicate_entities: the list after the call (sorted
\* in place unless empty) and the list returned
deduplicate_entities(list) ==
    IF list = <<>> THEN [entities |-> <<>>, unique_entities |-> <<>>]
    ELSE LET sorted == SortByConfidence(list)
         IN  [entities |-> sorted, unique_entities |-> DedupLoop(sorted, {}, <<>>)]

DedupInit ==
    /\ entities = <<>>
    /\ candidates = <<>>
    /\ unique_entities = <<>>
    /\ dedup_pc = "collect"

\* extract_entities: a pass extends the list by a candidate
Extend(e) ==
    /\ dedup_pc = "collect"
    /\ Len(entities) < MaxEntities
    /\ entities' = Append(entities, e)
    /\ UNCHANGED <<candidates, unique_entities, dedup_pc>>
    /\ UNCHANGED notDedupVars

\* extract_entities: final_entities = self._deduplicate_entities(entities)
DeduplicateEntities ==
    /\ dedup_pc = "collect"
    /\ candidates' = entities
    /\ entities' = deduplicate_entities(entities).entities
    /\ unique_entities' = deduplicate_entities(entities).unique_entities
    /\ dedup_pc' = "done"
    /\ UNCHANGED notDedupVars

DedupNext ==
    \/ \E e \in Entities : Extend(e)
    \/ DeduplicateEntities

InitDedup == DedupInit /\ AmountIdle /\ ExtractIdle /\ ParseIdle /\ ValidateIdle /\ BatchIdle /\ LlmIdle /\ SanitizeIdle /\ OrganizeIdle /\ HandlerIdle /\ ChunkIdle

SpecDedup == InitDedup /\ [][DedupNext]_vars

\* C1: the dedup returns at most len(L) entities, each an element of L, and no
\* two of them share the (normalized_text, entity_type) key
DedupInvariant ==
    dedup_pc = "done" =>
        /\ Len(unique_entities) <= Len(candidates)
        /\ \A i \in 1..Len(unique_entities) : unique_entities[i] \in Range(candidates)
        /\ \A i, j \in 1..Len(unique_entities) :
            i # j =>
                <<normalize_entity_text(unique_entities[i]), unique_entities[i].entity_type>>
                    # <<normalize_entity_text(unique_entities[j]), unique_entities[j].entity_type>>

\* C1's case: two candidates with different raw texts and one key were merged,
\* and two entities were kept
DedupMerged ==
    /\ dedup_pc = "done"
    /\ Len(unique_entities) = 2
    /\ \E i, j \in 1..Len(candidates) :
        /\ candidates[i].text # candidates[j].text
        /\ candidates[i].entity_type = candidates[j].entity_type
        /\ normalize_entity_text(candidates[i]) = normalize_entity_text(candidates[j])

Discarded == {c \in Range(candidates) : c \notin Range(unique_entities)}

\* C2: no discarded candidate with the key of a kept entity has a confidence
\* strictly greater than the kept entity's
ConfidenceMonotone ==
    dedup_pc = "done" =>
        \A i \in 1..Len(unique_entities) : \A c \in Discarded :
            (/\ c.entity_type = unique_entities[i].entity_type
             /\ normalize_entity_text(c) = normalize_entity_text(unique_entities[i]))
                => c.confidence <= unique_entities[i].confidence

\* C2's case: a candidate was discarded for a later candidate of the list with
\* its key and a strictly greater confidence
LowerDiscardedForLater ==
    /\ dedup_pc = "done"
    /\ \E i, j \in 1..Len(candidates) :
        /\ i < j
        /\ candidates[i] \in Discarded
        /\ candidates[j] \in Range(unique_entities)
        /\ candidates[i].entity_type = candidates[j].entity_type
        /\ normalize_entity_text(candidates[i]) = normalize_entity_text(candidates[j])
        /\ candidates[i].confidence < candidates[j].confidence

\* The place of the first candidate equal to e
FirstPlace(e) == CHOOSE i \in 1..Len(candidates) :
    candidates[i] = e /\ \A j \in 1..(i - 1) : candidates[j] # e

\* The candidates with the key and the confidence of e
Ties(e) ==
    {i \in 1..Len(candidates) :
        /\ EntityKey(candidates[i]) = EntityKey(e)
        /\ candidates[i].confidence = e.confidence}

\* C28: the entities returned are in non-increasing order of confidence; of
\* the candidates with one key and one confidence the one returned is the first
\* of the input list, and returned entities of equal confidence are in the
\* order they had in the input list.
DedupOrderStable ==
    dedup_pc = "done" =>
        /\ \A i, j \in 1..Len(unique_entities) :
               i < j => unique_entities[i].confidence >= unique_entities[j].confidence
        /\ \A k \in 1..Len(unique_entities) :
               \A i \in Ties(unique_entities[k]) : FirstPlace(unique_entities[k]) <= i
        /\ \A i, j \in 1..Len(unique_entities) :
               (i < j /\ unique_entities[i].confidence = unique_entities[j].confidence)
                   => FirstPlace(unique_entities[i]) < FirstPlace(unique_entities[j])

\* C28's case: two candidates with different raw texts, one key and one
\* confidence, of which the first was returned, behind another returned entity
\* of the same confidence
TieKeptFirst ==
    /\ dedup_pc = "done"
    /\ Len(unique_entities) = 2
    /\ unique_entities[1].confidence = unique_entities[2].confidence
    /\ \E i, j \in 1..Len(candidates) :
        /\ i < j
        /\ candidates[i] = unique_entities[2]
        /\ candidates[j] # candidates[i]
        /\ j \in Ties(candidates[i])

\* -------------------------------------------- amounts: the specification

\* The longest amount text after its currency prefix
MaxAmountLen == 4

AmountAlphabet == {"0", "1", ".", ",", "e", "n", "a"}

AmountPrefixes == {<<>>, <<"R", "$", " ">>}

Strings(alphabet, n) == UNION {[1..k -> alphabet] : k \in 0..n}

\* The strings test_parse_amount gives _parse_amount
TestAmounts ==
    { <<"R", "$", " ", "1", "5", "0", ".", "0", "0", "0", ",", "0", "0">>,
      <<"U", "S", "$", " ", "5", "0", ",", "0", "0", "0", ".", "0", "0">>,
      <<"€", " ", "2", "5", ".", "0", "0", "0", ",", "0", "0">>,
      <<"1", "5", "0", ".", "0", "0", "0", ",", "0", "0">>,
      <<"i", "n", "v", "a", "l", "i", "d">>,
      <<>> }

AmountInputs ==
    {p \o b : p \in AmountPrefixes, b \in Strings(AmountAlphabet, MaxAmountLen)} \cup TestAmounts

AmountInit ==
    /\ amount_str \in AmountInputs
    /\ amount = Pending
    /\ normalized_text = <<>>
    /\ amount_pc = "input"

\* metadata['total_value'] = self._parse_amount(amount_str)
ParseAmount ==
    /\ amount_pc = "input"
    /\ amount' = parse_amount(amount_str)
    /\ amount_pc' = "parsed"
    /\ UNCHANGED <<amount_str, normalized_text>>
    /\ UNCHANGED notAmountVars

\* normalized_text = self._normalize_entity_text(entity) for an AMOUNT entity
NormalizeAmount ==
    /\ amount_pc = "input"
    /\ normalized_text' = normalize_entity_text([text |-> amount_str, entity_type |-> "AMOUNT"])
    /\ amount_pc' = "normalized"
    /\ UNCHANGED <<amount_str, amount>>
    /\ UNCHANGED notAmountVars

AmountNext == ParseAmount \/ NormalizeAmount

InitAmount == AmountInit /\ DedupIdle /\ ExtractIdle /\ ParseIdle /\ ValidateIdle /\ BatchIdle /\ LlmIdle /\ SanitizeIdle /\ OrganizeIdle /\ HandlerIdle /\ ChunkIdle

SpecAmount == InitAmount /\ [][AmountNext]_vars

CurrencySymbols == {<<"R", "$">>, <<"U", "S", "$">>, <<"$">>, <<"€">>, <<"£">>}

HasPrefix(s, p) == Len(s) >= Len(p) /\ Take(s, Len(p)) = p

\* s without its currency symbol and the blanks behind it, if it has one
AmountBody(s) ==
    IF \E p \in CurrencySymbols : HasPrefix(s, p)
    THEN LStrip(Drop(s, Len(CHOOSE p \in CurrencySymbols : HasPrefix(s, p))))
    ELSE s

\* An optional currency symbol, then digits in groups of three with '.' between
\* them and a ',' decimal part
IsBrazilianAmount(s) ==
    LET parts == SplitAt(AmountBody(s), {","})
        groups == SplitAt(parts[1], {"."})
    IN  /\ Len(parts) = 2
        /\ parts[2] # <<>> /\ IsDigits(parts[2])
        /\ \A i \in 1..Len(groups) : groups[i] # <<>> /\ IsDigits(groups[i])
        /\ Len(groups[1]) <= 3
        /\ \A i \in 2..Len(groups) : Len(groups[i]) = 3

\* The number a Brazilian amount denotes: its digits, the last Len(decimals) of
\* them behind the point
BrazilianValue(s) ==
    LET parts == SplitAt(AmountBody(s), {","})
    IN  Rounded(FALSE, Delete(parts[1], {"."}) \o parts[2], 0 - Len(parts[2]))

\* C5: an AMOUNT text in the Brazilian form is normalised to a numeric string of
\* the number it denotes, and an AMOUNT text that is no number is returned
\* as it was (lowercased, trimmed)
AmountNormalisedToNumber ==
    amount_pc = "normalized" =>
        /\ IsBrazilianAmount(amount_str) => ParseFloat(normalized_text) = BrazilianValue(amount_str)
        /\ (~IsBrazilianAmount(amount_str)
            /\ ParseFloat(Replace(Delete(AmountBody(amount_str), {"."}), ",", ".")) = ValueError)
                => normalized_text = Strip(Lower(amount_str))

\* C6: with both '.' and ',' every '.' is deleted and ',' is the decimal point,
\* with ',' alone ',' is the decimal point; 'R$ 150.000,00' is 150000.0 and
\* 'US$ 50,000.00' is 50.0
FloatOrNone(s) == IF ParseFloat(s) = ValueError THEN None ELSE ParseFloat(s)

AmountLocaleRule ==
    amount_pc = "parsed" =>
        LET clean == Delete(amount_str, CurrencyChars)
            comma == \E i \in 1..Len(clean) : clean[i] = ","
            dot == \E i \in 1..Len(clean) : clean[i] = "."
        IN  /\ (comma /\ dot) => amount = FloatOrNone(Replace(Delete(clean, {"."}), ",", "."))
            /\ (comma /\ ~dot) => amount = FloatOrNone(Replace(clean, ",", "."))
            /\ amount_str = <<"R", "$", " ", "1", "5", "0", ".", "0", "0", "0", ",", "0", "0">>
                => amount = Num(FALSE, <<"1", "5">>, 4)
            /\ amount_str = <<"U", "S", "$", " ", "5", "0", ",", "0", "0", "0", ".", "0", "0">>
                => amount = Num(FALSE, <<"5">>, 1)

\* C6's case: the US-format amount was parsed, to 50.0
USAmountParsedAsFifty ==
    /\ amount_pc = "parsed"
    /\ amount_str = <<"U", "S", "$", " ", "5", "0", ",", "0", "0", "0", ".", "0", "0">>
    /\ FloatRepr(amount) = <<"5", "0", ".", "0">>

\* C7: _parse_amount returns None for a string that is no number after cleaning,
\* and every result that is not None is a finite number
AmountNoneOrFinite ==
    amount_pc = "parsed" =>
        /\ amount = None \/ IsFinite(amount)
        /\ ParseFloat(LocaleNormalise(Delete(amount_str, CurrencyChars))) \in {ValueError, NaN}
            => amount = None

\* ------------------------------------------------------- extract_entities

\* The most candidates one pass builds
MaxPassCandidates == 2

\* classification[0]['score'] > 0.7, in hundredths
RobertaThreshold == 70

\* confidence=0.85 of a domain-knowledge entity, in hundredths
DomainConfidence == 85

ModelEntity(text, entity_type, confidence, model) ==
    [text |-> text, entity_type |-> entity_type, confidence |-> confidence, model |-> model]

\* What the models report in the model: a supplier and an amount from the NER, the
\* amount and a contract line from the classifier (one score under the
\* threshold), a contract type from the pattern search
ModelReports ==
    [p \in Passes |->
        CASE p = "bert" ->
                { ModelEntity(<<"A", "c", "m", "e">>, "SUPPLIER", 90, "bert"),
                  ModelEntity(<<"R", "$", " ", "1", ",", "5">>, "AMOUNT", 70, "bert") }
          [] p = "roberta" ->
                { ModelEntity(<<"r", "$", " ", "1", ",", "5">>, "AMOUNT", 90, "roberta"),
                  ModelEntity(<<"m", "s", "a", " ", "1">>, "CONTRACT_ID", 60, "roberta") }
          [] p = "domain" ->
                { ModelEntity(<<"M", "S", "A">>, "CONTRACT_TYPE", DomainConfidence, "domain_knowledge"),
                  ModelEntity(<<"m", "s", "a">>, "CONTRACT_TYPE", DomainConfidence, "domain_knowledge") }]

NextPass == [p \in Passes |-> CASE p = "bert" -> "check_roberta" [] p = "roberta" -> "check_domain" [] p = "domain" -> "dedup"]

ExtractInit ==
    /\ models = [p \in Passes |-> "unset"]
    /\ openai_jsonl_dir \in BOOLEAN
    /\ found = [p \in Passes |-> <<>>]
    /\ failed = {}
    /\ extracted = <<>>
    /\ final_entities = <<>>
    /\ extract_pc = "new"

\* __init__ and _load_models with the libraries missing: the import of
\* transformers raises ImportError, which the outer handler logs; no attribute
\* is assigned
LoadModelsImportError ==
    /\ extract_pc = "new"
    /\ extract_pc' = "check_bert"
    /\ UNCHANGED <<models, openai_jsonl_dir, found, failed, extracted, final_entities>>
    /\ UNCHANGED notExtractVars

\* _load_models with transformers importable: each attribute is the loaded model,
\* or None when its own try block caught an exception
LoadModels(loaded) ==
    /\ extract_pc = "new"
    /\ models' = [p \in Passes |-> IF p \in loaded THEN "loaded" ELSE "None"]
    /\ extract_pc' = "check_bert"
    /\ UNCHANGED <<openai_jsonl_dir, found, failed, extracted, final_entities>>
    /\ UNCHANGED notExtractVars

CheckPc == [p \in Passes |-> CASE p = "bert" -> "check_bert" [] p = "roberta" -> "check_roberta" [] p = "domain" -> "check_domain"]
RunPc == [p \in Passes |-> CASE p = "bert" -> "run_bert" [] p = "roberta" -> "run_roberta" [] p = "domain" -> "run_domain"]

\* The value of self.bert_ner, self.roberta_classifier, self.sentence_model
ModelAttribute(p) == models[p]

\* `if self.bert_ner:`, `if self.roberta_classifier:`, `if self.sentence_model:`.
\* Reading an attribute that was never assigned raises AttributeError, which no
\* handler of extract_entities catches.
CheckModel(p) ==
    /\ extract_pc = CheckPc[p]
    /\ extract_pc' =
        CASE ModelAttribute(p) = "unset" -> "raised"
          [] ModelAttribute(p) = "None" -> NextPass[p]
          [] ModelAttribute(p) = "loaded" -> RunPc[p]
    /\ UNCHANGED <<models, openai_jsonl_dir, found, failed, extracted, final_entities>>
    /\ UNCHANGED notExtractVars

\* The loop of a pass builds an entity from a model result; the classifier's
\* below the threshold build none
ModelYields(p, e) ==
    /\ extract_pc = RunPc[p]
    /\ ~(p = "domain" /\ openai_jsonl_dir)
    /\ Len(found[p]) < MaxPassCandidates
    /\ found' = [found EXCEPT ![p] =
                    IF p = "roberta" /\ ~(e.confidence > RobertaThreshold) THEN @ ELSE Append(@, e)]
    /\ UNCHANGED <<models, openai_jsonl_dir, failed, extracted, final_entities, extract_pc>>
    /\ UNCHANGED notExtractVars

\* The pass returns its entities and extract_entities extends its list by them
PassReturns(p) ==
    /\ extract_pc = RunPc[p]
    /\ ~(p = "domain" /\ openai_jsonl_dir)
    /\ extracted' = extracted \o found[p]
    /\ extract_pc' = NextPass[p]
    /\ UNCHANGED <<models, openai_jsonl_dir, found, failed, final_entities>>
    /\ UNCHANGED notExtractVars

\* A model call raises inside the pass: the pass's own handler logs it and the
\* pass returns the entities it had built. With a pattern directory the domain
\* pass raises before its loop (_load_openai_patterns uses Path, which the module
\* does not import).
PassRaises(p) ==
    /\ extract_pc = RunPc[p]
    /\ failed' = failed \cup {p}
    /\ extracted' = extracted \o found[p]
    /\ extract_pc' = NextPass[p]
    /\ UNCHANGED <<models, openai_jsonl_dir, found, final_entities>>
    /\ UNCHANGED notExtractVars

\* final_entities = self._deduplicate_entities(entities); return ContractEntities(...)
ReturnEntities ==
    /\ extract_pc = "dedup"
    /\ extracted' = deduplicate_entities(extracted).entities
    /\ final_entities' = deduplicate_entities(extracted).unique_entities
    /\ extract_pc' = "returned"
    /\ UNCHANGED <<models, openai_jsonl_dir, found, failed>>
    /\ UNCHANGED notExtractVars

ExtractNext ==
    \/ LoadModelsImportError
    \/ \E loaded \in SUBSET Passes : LoadModels(loaded)
    \/ \E p \in Passes : CheckModel(p)
    \/ \E p \in Passes : \E e \in ModelReports[p] : ModelYields(p, e)
    \/ \E p \in Passes : PassReturns(p)
    \/ \E p \in Passes : PassRaises(p)
    \/ ReturnEntities

InitExtract == ExtractInit /\ DedupIdle /\ AmountIdle /\ ParseIdle /\ ValidateIdle /\ BatchIdle /\ LlmIdle /\ SanitizeIdle /\ OrganizeIdle /\ HandlerIdle /\ ChunkIdle

SpecExtract == InitExtract /\ [][ExtractNext]_vars

PassOf(e) == IF e.model = "domain_knowledge" THEN "domain" ELSE e.model

\* C4: extract_entities never raises, whichever models are missing and whichever
\* pass fails; a missing or failing pass contributes no candidate, and the
\* candidates of the other passes are returned (each kept, or merged into a kept
\* entity of its key)
ExtractNeverRaises ==
    /\ extract_pc # "raised"
    /\ extract_pc = "returned" =>
        /\ \A i \in 1..Len(extracted) :
            PassOf(extracted[i]) \notin failed /\ models[PassOf(extracted[i])] = "loaded"
        /\ \A p \in Passes \ failed : \A i \in 1..Len(found[p]) :
            \E j \in 1..Len(final_entities) : EntityKey(final_entities[j]) = EntityKey(found[p][i])

\* ----------------------------------------------------------- _extract_dates

CharAt(s, i) == IF i >= 1 /\ i <= Len(s) THEN s[i] ELSE ""

\* The number of characters from index i on that are in `class`
RECURSIVE RunLen(_, _, _)
RunLen(s, i, class) == IF CharAt(s, i) \in class THEN 1 + RunLen(s, i + 1, class) ELSE 0

LowerLetters ==
    {"a", "b", "c", "d", "e", "f", "g", "h", "i", "j", "k", "l", "m",
     "n", "o", "p", "q", "r", "s", "t", "u", "v", "w", "x", "y", "z"}

\* [a-z] under re.IGNORECASE
Letters == LowerLetters \cup DOMAIN UpperToLower

\* jan|fev|mar|abr|mai|jun|jul|ago|set|out|nov|dez
MonthNames ==
    <<<<"j", "a", "n">>,
      <<"f", "e", "v">>,
      <<"m", "a", "r">>,
      <<"a", "b", "r">>,
      <<"m", "a", "i">>,
      <<"j", "u", "n">>,
      <<"j", "u", "l">>,
      <<"a", "g", "o">>,
      <<"s", "e", "t">>,
      <<"o", "u", "t">>,
      <<"n", "o", "v">>,
      <<"d", "e", "z">>>>

\* month_map
MonthNumber(abbr) == CHOOSE k \in 1..12 : MonthNames[k] = abbr

NoMatch == [ok |-> FALSE, start |-> 0, end |-> 0, groups |-> <<>>]

Match(i, j, groups) == [ok |-> TRUE, start |-> i, end |-> j, groups |-> groups]

\* \d{1,2} before a character that is no digit takes at most two of a run of n digits
AtMostTwo(n) == IF n >= 2 THEN 2 ELSE n

OneOrTwoDigits(s, i) == AtMostTwo(RunLen(s, i, Digits))

\* (\d{4}) at index k closes the match that began at i with the groups so far
YearEnds(s, i, k, groups) ==
    IF RunLen(s, k, Digits) >= 4
    THEN Match(i, k + 4, Append(groups, SubSeq(s, k, k + 3)))
    ELSE NoMatch

\* /(\d{1,2})/(\d{4}) after a first group of n1 digits; the second has n2 digits at j
SlashSecond(s, i, n1, j, n2) ==
    IF n1 >= 1 /\ CharAt(s, i + n1) = "/" /\ n2 >= 1 /\ CharAt(s, j + n2) = "/"
    THEN YearEnds(s, i, j + n2 + 1, <<SubSeq(s, i, i + n1 - 1), SubSeq(s, j, j + n2 - 1)>>)
    ELSE NoMatch

SlashFirst(s, i, n1) == SlashSecond(s, i, n1, i + n1 + 1, OneOrTwoDigits(s, i + n1 + 1))

\* r'(\d{1,2})/(\d{1,2})/(\d{4})' tried at index i
MatchSlashDate(s, i) == SlashFirst(s, i, OneOrTwoDigits(s, i))

\* -(\d{1,2}) with n3 digits at k, after (\d{4})-(\d{1,2}) with n2 digits at i + 5
IsoThird(s, i, n2, k, n3) ==
    IF /\ RunLen(s, i, Digits) >= 4 /\ CharAt(s, i + 4) = "-"
       /\ n2 >= 1 /\ CharAt(s, k - 1) = "-"
       /\ n3 >= 1
    THEN Match(i, k + n3, <<SubSeq(s, i, i + 3), SubSeq(s, i + 5, i + 4 + n2), SubSeq(s, k, k + n3 - 1)>>)
    ELSE NoMatch

IsoSecond(s, i, n2) == IsoThird(s, i, n2, i + n2 + 6, OneOrTwoDigits(s, i + n2 + 6))

\* r'(\d{4})-(\d{1,2})-(\d{1,2})' tried at index i
MatchIsoDate(s, i) == IsoSecond(s, i, OneOrTwoDigits(s, i + 5))

\* \s+(\d{4}) after the month's letters, which end before c
MonthYear(s, i, n1, c, w3) ==
    IF w3 >= 1 THEN YearEnds(s, i, c + w3, <<SubSeq(s, i, i + n1 - 1)>>) ELSE NoMatch

\* (?:jan|...|dez)[a-z]* at b
MonthName(s, i, n1, b) ==
    IF b + 2 <= Len(s) /\ \E m \in 1..12 : MonthNames[m] = Lower(SubSeq(s, b, b + 2))
    THEN MonthYear(s, i, n1,
                   b + 3 + RunLen(s, b + 3, Letters),
                   RunLen(s, b + 3 + RunLen(s, b + 3, Letters), Whitespace))
    ELSE NoMatch

\* (?:de\s+)? at a, with w2 the white space two characters on
MonthDe(s, i, n1, a, w2) ==
    MonthName(s, i, n1,
              IF a + 1 <= Len(s) /\ Lower(SubSeq(s, a, a + 1)) = <<"d", "e">> /\ w2 >= 1
              THEN a + 2 + w2 ELSE a)

\* \s+ after the day's n1 digits, w1 characters of it
MonthDay(s, i, n1, w1) ==
    IF n1 >= 1 /\ w1 >= 1
    THEN MonthDe(s, i, n1, i + n1 + w1, RunLen(s, i + n1 + w1 + 2, Whitespace))
    ELSE NoMatch

MonthFirst(s, i, n1) == MonthDay(s, i, n1, RunLen(s, i + n1, Whitespace))

\* r'(\d{1,2})\s+(?:de\s+)?(?:jan|...|dez)[a-z]*\s+(\d{4})' under re.IGNORECASE,
\* tried at index i. The month is in a group that does not capture: the match
\* has two groups.
MatchMonthDate(s, i) == MonthFirst(s, i, OneOrTwoDigits(s, i))

\* self.patterns['date_formats']
DateFormats == {1, 2, 3}

MatchAt(pattern, s, i) ==
    CASE pattern = 1 -> MatchSlashDate(s, i)
      [] pattern = 2 -> MatchIsoDate(s, i)
      [] pattern = 3 -> MatchMonthDate(s, i)

\* '/' in pattern, and '-' in pattern: the third pattern has a '-' in its [a-z]
HasSlash(pattern) == pattern = 1
HasDash(pattern) == pattern \in {2, 3}

\* re.finditer(pattern, content, re.IGNORECASE): the matches from index i on,
\* leftmost first, none overlapping
RECURSIVE FindIter(_, _, _)
FindNext(pattern, s, i, m) ==
    IF m.ok THEN <<m>> \o FindIter(pattern, s, m.end) ELSE FindIter(pattern, s, i + 1)

FindIter(pattern, s, i) ==
    IF i > Len(s) THEN <<>> ELSE FindNext(pattern, s, i, MatchAt(pattern, s, i))

NoEntry == [date |-> NoDate, text |-> <<>>, position |-> -1]

\* The body of the loop over the matches: the entry appended for a match, or
\* NoEntry when the match has not three groups or datetime() raises ValueError
DateEntry(pattern, s, m) ==
    LET g == m.groups
        ymd == IF HasSlash(pattern) THEN <<IntOf(g[3]), IntOf(g[2]), IntOf(g[1])>>
               ELSE IF HasDash(pattern) THEN <<IntOf(g[1]), IntOf(g[2]), IntOf(g[3])>>
               ELSE <<IntOf(g[3]),
                      IF \E k \in 1..12 : MonthNames[k] = Take(Lower(g[2]), 3)
                      THEN MonthNumber(Take(Lower(g[2]), 3)) ELSE 1,
                      IntOf(g[1])>>
    IN  IF Len(g) # 3 THEN NoEntry
        ELSE IF ~ValidDate(ymd[1], ymd[2], ymd[3]) THEN NoEntry
        ELSE [date |-> Date(ymd[1], ymd[2], ymd[3]),
              text |-> SubSeq(s, m.start, m.end - 1),
              position |-> m.start - 1]

\* The entries one pattern appends to `dates`
MatchEntries(pattern, s, ms) ==
    SelectSeq([k \in 1..Len(ms) |-> DateEntry(pattern, s, ms[k])], LAMBDA e : e # NoEntry)

PatternDates(pattern, s) == MatchEntries(pattern, s, FindIter(pattern, s, 1))

\* dates.sort(key=lambda x: x['position']) is stable
RECURSIVE InsertByPosition(_, _)
InsertByPosition(sorted, e) ==
    IF sorted = <<>> THEN <<e>>
    ELSE IF Head(sorted).position <= e.position
         THEN <<Head(sorted)>> \o InsertByPosition(Tail(sorted), e)
         ELSE <<e>> \o sorted

RECURSIVE SortByPosition(_)
SortByPosition(list) ==
    IF list = <<>> THEN <<>>
    ELSE InsertByPosition(SortByPosition(Take(list, Len(list) - 1)), list[Len(list)])

\* ContractParser._extract_dates
extract_dates(s) ==
    SortByPosition(PatternDates(1, s) \o PatternDates(2, s) \o PatternDates(3, s))

\* --------------------------------------------------- amount and currency

\* A number the metadata dict has no key for
Absent == [kind |-> "absent"]

\* re.search found nothing; as a metadata value, a text the dict has no key for
NoGroup == [ok |-> FALSE, text |-> <<>>]

Group(text) == [ok |-> TRUE, text |-> text]

\* s has `word` at index i, whatever the case of its letters
HasWordAt(s, i, word) ==
    i + Len(word) - 1 <= Len(s) /\ Lower(SubSeq(s, i, i + Len(word) - 1)) = Lower(word)

\* s has `word` at index i, letter for letter
HasTextAt(s, i, word) ==
    i + Len(word) - 1 <= Len(s) /\ SubSeq(s, i, i + Len(word) - 1) = word

\* The alternatives of patterns['currency'], (R\$|US\$|USD|BRL|EUR|€|£), in order
CurrencyAlternatives ==
    << <<"R", "$">>, <<"U", "S", "$">>, <<"U", "S", "D">>, <<"B", "R", "L">>,
       <<"E", "U", "R">>, <<"€">>, <<"£">> >>

\* The first alternative of a list that s has at i, 0 without any
RECURSIVE FirstWordAt(_, _, _, _)
FirstWordAt(s, i, words, k) ==
    IF k > Len(words) THEN 0
    ELSE IF HasWordAt(s, i, words[k]) THEN k
    ELSE FirstWordAt(s, i, words, k + 1)

CurrencyFound(s, i, k) == Group(SubSeq(s, i, i + Len(CurrencyAlternatives[k]) - 1))

\* re.search(self.patterns['currency'], content) from index i on: group(1)
RECURSIVE CurrencySearch(_, _)
CurrencySearch(s, i) ==
    IF i > Len(s) THEN NoGroup
    ELSE IF FirstWordAt(s, i, CurrencyAlternatives, 1) # 0
         THEN CurrencyFound(s, i, FirstWordAt(s, i, CurrencyAlternatives, 1))
    ELSE CurrencySearch(s, i + 1)

\* [R$US$USD€£] as written, and under (?i)
AmountSymbolChars == {"R", "$", "U", "S", "D", "€", "£"}
AmountSymbolCharsIgnoreCase == AmountSymbolChars \cup {"r", "u", "s", "d"}

\* \.?\d* after the digits and commas, which end before index d
AmountFraction(s, j, d, dot) == Group(SubSeq(s, j, d + dot + RunLen(s, d + dot, Digits) - 1))

\* [\d,]+ at index a, n characters of it
AmountDigits(s, j, a, n) ==
    IF n >= 1 THEN AmountFraction(s, j, a + n, IF CharAt(s, a + n) = "." THEN 1 ELSE 0)
    ELSE NoGroup

\* \s*[\d,]+ after the optional symbol, w characters of white space at j + c
AmountSpace(s, j, c, w) == AmountDigits(s, j, j + c + w, RunLen(s, j + c + w, Digits \cup {","}))

AmountSymbol(s, j, c) == AmountSpace(s, j, c, RunLen(s, j + c, Whitespace))

\* ([R$US$USD€£]?\s*[\d,]+\.?\d*) tried at index j: the text of the group
AmountGroup(s, j, symbols) == AmountSymbol(s, j, IF CharAt(s, j) \in symbols THEN 1 ELSE 0)

\* (?:valor|value|amount|total)
AmountKeywords ==
    << <<"v", "a", "l", "o", "r">>, <<"v", "a", "l", "u", "e">>,
       <<"a", "m", "o", "u", "n", "t">>, <<"t", "o", "t", "a", "l">> >>

\* The keyword at i, then [\s:]*, then the group
AmountAfterKeyword(s, i, k) ==
    IF k = 0 THEN NoGroup
    ELSE AmountGroup(s,
                     i + Len(AmountKeywords[k])
                       + RunLen(s, i + Len(AmountKeywords[k]), Whitespace \cup {":"}),
                     AmountSymbolCharsIgnoreCase)

RECURSIVE AmountSearch(_, _)
AmountTried(s, i, g) == IF g.ok THEN g ELSE AmountSearch(s, i + 1)

\* re.search(amount_pattern, content) from index i on: group(1)
AmountSearch(s, i) ==
    IF i > Len(s) THEN NoGroup
    ELSE AmountTried(s, i, AmountAfterKeyword(s, i, FirstWordAt(s, i, AmountKeywords, 1)))

TotalValueLabel ==
    <<"*", "*", "T", "o", "t", "a", "l", " ", "V", "a", "l", "u", "e", ":", "*", "*">>

BoldAmountAt(s, i) ==
    IF HasTextAt(s, i, TotalValueLabel)
    THEN AmountGroup(s,
                     i + Len(TotalValueLabel) + RunLen(s, i + Len(TotalValueLabel), Whitespace),
                     AmountSymbolChars)
    ELSE NoGroup

RECURSIVE BoldAmountSearch(_, _)
BoldAmountTried(s, i, g) == IF g.ok THEN g ELSE BoldAmountSearch(s, i + 1)

\* re.search(bold_amount_pattern, content) from index i on: group(1)
BoldAmountSearch(s, i) == IF i > Len(s) THEN NoGroup ELSE BoldAmountTried(s, i, BoldAmountAt(s, i))

\* bool(x) of a metadata value that is a float, None or missing
Truthy(x) == x.kind \notin {"absent", "None"} /\ x # Zero(FALSE) /\ x # Zero(TRUE)

\* bool(x) of a metadata value that is a string or missing
NonEmpty(x) == x.ok /\ x.text # <<>>

\* metadata['total_value'] after the bold pattern: tried while there is no truthy value
BoldTotalValue(s, value, bold) ==
    IF ~Truthy(value) /\ bold.ok THEN parse_amount(bold.text) ELSE value

\* metadata['total_value'] after the currency block
KeywordTotalValue(currency, amount_match) ==
    IF currency.ok /\ amount_match.ok THEN parse_amount(amount_match.text) ELSE Absent

\* The 'total_value' of _extract_metadata_from_markdown
MarkdownTotalValue(s, currency) ==
    BoldTotalValue(s, KeywordTotalValue(currency, AmountSearch(s, 1)), BoldAmountSearch(s, 1))

\* ---------------------------------------------------------------- sections

\* A dict as the list of its items, in the order the keys were first set
RECURSIVE DictSet(_, _, _)
DictSet(d, key, value) ==
    IF d = <<>> THEN <<[key |-> key, value |-> value]>>
    ELSE IF Head(d).key = key THEN <<[key |-> key, value |-> value]>> \o Tail(d)
    ELSE <<Head(d)>> \o DictSet(Tail(d), key, value)

DictKeys(d) == {d[i].key : i \in 1..Len(d)}

DictGet(d, key) == (CHOOSE i \in 1..Len(d) : d[i].key = key)

\* content.split('\n'), the line in progress being `line`
RECURSIVE SplitLines(_, _)
SplitLines(s, line) ==
    IF s = <<>> THEN <<line>>
    ELSE IF Head(s) = "\n" THEN <<line>> \o SplitLines(Tail(s), <<>>)
    ELSE SplitLines(Tail(s), Append(line, Head(s)))

\* '\n'.join(lines)
RECURSIVE JoinLines(_)
JoinLines(lines) ==
    IF lines = <<>> THEN <<>>
    ELSE IF Len(lines) = 1 THEN lines[1]
    ELSE lines[1] \o <<"\n">> \o JoinLines(Tail(lines))

\* What r'^#{1,2,3}\s+(.+)$' begins with: {1,2,3} is no repetition count, and the
\* pattern matches these eight characters themselves
HeaderPrefix == <<"#", "{", "1", ",", "2", ",", "3", "}">>

\* \s+(.+)$ after the prefix, with w characters of white space there: the group;
\* of a rest that is white space only, .+ gets the last character
HeaderTitle(line, w) ==
    IF w >= 1 /\ Len(HeaderPrefix) + w < Len(line)
    THEN Group(SubSeq(line, Len(HeaderPrefix) + w + 1, Len(line)))
    ELSE IF w >= 2 THEN Group(<<line[Len(line)]>>)
    ELSE NoGroup

\* re.match(r'^#{1,2,3}\s+(.+)$', line): group(1)
HeaderMatch(line) ==
    IF HasTextAt(line, 1, HeaderPrefix)
    THEN HeaderTitle(line, RunLen(line, Len(HeaderPrefix) + 1, Whitespace))
    ELSE NoGroup

\* `if current_section and current_content: sections[current_section] = ...`
SaveSection(sections, current_section, current_content) ==
    IF NonEmpty(current_section) /\ current_content # <<>>
    THEN DictSet(sections, current_section.text, Strip(JoinLines(current_content)))
    ELSE sections

RECURSIVE SectionLoop(_, _, _, _)
SectionLine(lines, sections, current_section, current_content, header_match) ==
    IF header_match.ok
    THEN SectionLoop(Tail(lines),
                     SaveSection(sections, current_section, current_content),
                     Group(Lower(header_match.text)), <<>>)
    ELSE IF NonEmpty(current_section)
    THEN SectionLoop(Tail(lines), sections, current_section, Append(current_content, Head(lines)))
    ELSE SectionLoop(Tail(lines), sections, current_section, current_content)

\* The loop over the lines, and the saving of the last section
SectionLoop(lines, sections, current_section, current_content) ==
    IF lines = <<>> THEN SaveSection(sections, current_section, current_content)
    ELSE SectionLine(lines, sections, current_section, current_content, HeaderMatch(Head(lines)))

\* The characters from index i on that are not in `stop`
RECURSIVE RunLenNot(_, _, _)
RunLenNot(s, i, stop) ==
    IF i <= Len(s) /\ s[i] \notin stop THEN 1 + RunLenNot(s, i + 1, stop) ELSE 0

\* ([^*\n]*) at index b closes a bold pair whose name is `name`
BoldValue(s, i, name, b, n) == Match(i, b + n, <<name, SubSeq(s, b, b + n - 1)>>)

\* ([^*]+):\*\* with n characters that are no '*' from index i + 2 on
BoldName(s, i, n) ==
    IF n >= 2 /\ s[i + 1 + n] = ":" /\ HasTextAt(s, i + 2 + n, <<"*", "*">>)
    THEN BoldValue(s, i, SubSeq(s, i + 2, i + n), i + n + 4, RunLenNot(s, i + n + 4, {"*", "\n"}))
    ELSE NoMatch

\* r'\*\*([^*]+):\*\*([^*\n]*)' tried at index i
BoldPairAt(s, i) ==
    IF HasTextAt(s, i, <<"*", "*">>) THEN BoldName(s, i, RunLenNot(s, i + 2, {"*"})) ELSE NoMatch

RECURSIVE BoldPairs(_, _, _)
BoldPairNext(s, i, sections, m) ==
    IF ~m.ok THEN BoldPairs(s, i + 1, sections)
    ELSE BoldPairs(s, m.end,
                   IF Strip(m.groups[2]) # <<>>
                   THEN DictSet(sections, Lower(m.groups[1]), Strip(m.groups[2]))
                   ELSE sections)

\* The loop over re.finditer(bold_section_pattern, content)
BoldPairs(s, i, sections) ==
    IF i > Len(s) THEN sections ELSE BoldPairNext(s, i, sections, BoldPairAt(s, i))

\* `if not sections:` the bold pairs are looked for
BoldFallback(content, sections) ==
    IF sections = <<>> THEN BoldPairs(content, 1, <<>>) ELSE sections

\* ContractParser._extract_sections_from_markdown
extract_sections_from_markdown(content) ==
    BoldFallback(content, SectionLoop(SplitLines(content, <<>>), <<>>, NoGroup, <<>>))

\* `if current_section and current_content: sections[current_section] = ...`
\* of _extract_sections_from_json, whose current_section is a block's text
RECURSIVE BlockLoop(_, _, _, _)
SectionBlock(blocks, sections, current_section, current_content, block) ==
    IF block.type = "heading"
    THEN BlockLoop(Tail(blocks),
                   SaveSection(sections, current_section, current_content),
                   Group(Lower(block.text)), <<>>)
    ELSE IF block.type = "paragraph" /\ NonEmpty(current_section)
    THEN BlockLoop(Tail(blocks), sections, current_section, Append(current_content, block.text))
    ELSE BlockLoop(Tail(blocks), sections, current_section, current_content)

BlockLoop(blocks, sections, current_section, current_content) ==
    IF blocks = <<>> THEN SaveSection(sections, current_section, current_content)
    ELSE SectionBlock(blocks, sections, current_section, current_content, Head(blocks))

\* ContractParser._extract_sections_from_json
extract_sections_from_json(blocks) == BlockLoop(blocks, <<>>, NoGroup, <<>>)

\* ---------------------------------------------------------------- entities

\* self.section_headers
section_headers ==
    << <<"v", "i", "g", "ê", "n", "c", "i", "a">>,
       <<"d", "u", "r", "a", "ç", "ã", "o">>,
       <<"t", "e", "r", "m", "o">>,
       <<"p", "r", "a", "z", "o">>,
       <<"e", "x", "p", "i", "r", "a", "ç", "ã", "o">>,
       <<"r", "e", "s", "c", "i", "s", "ã", "o">>,
       <<"t", "e", "r", "m", "i", "n", "a", "ç", "ã", "o">>,
       <<"c", "a", "n", "c", "e", "l", "a", "m", "e", "n", "t", "o">>,
       <<"c", "o", "n", "f", "i", "d", "e", "n", "c", "i", "a", "l", "i", "d", "a", "d", "e">>,
       <<"s", "i", "g", "i", "l", "o">>,
       <<"n", "ã", "o", " ", "d", "i", "v", "u", "l", "g", "a", "ç", "ã", "o">>,
       <<"p", "a", "g", "a", "m", "e", "n", "t", "o", "s">>,
       <<"p", "a", "g", "a", "m", "e", "n", "t", "o">>,
       <<"v", "a", "l", "o", "r">>,
       <<"p", "r", "e", "ç", "o">>,
       <<"c", "o", "m", "p", "e", "n", "s", "a", "ç", "ã", "o">>,
       <<"o", "b", "r", "i", "g", "a", "ç", "õ", "e", "s">>,
       <<"r", "e", "s", "p", "o", "n", "s", "a", "b", "i", "l", "i", "d", "a", "d", "e", "s">>,
       <<"d", "e", "v", "e", "r", "e", "s">>,
       <<"f", "o", "r", "o">>,
       <<"j", "u", "r", "i", "s", "d", "i", "ç", "ã", "o">>,
       <<"l", "e", "i", " ", "a", "p", "l", "i", "c", "á", "v", "e", "l">>,
       <<"d", "i", "s", "p", "u", "t", "a", "s">> >>

\* `word in s`
Contains(s, word) == \E i \in 1..(Len(s) - Len(word) + 1) : HasTextAt(s, i, word)

\* key_clauses: every value of the dict is True, and the model keeps its keys
KeyClauses(content) ==
    {section_headers[h] : h \in {k \in DOMAIN section_headers :
                                    Contains(Lower(content), Lower(section_headers[k]))}}

\* ContractParser._extract_entities_from_markdown. Of the keys of the result
\* the model keeps 'key_clauses', which is absent when no header is found; the
\* e-mail addresses, CNPJ/CPF numbers and tables are left out
extract_entities_from_markdown(content) == [key_clauses |-> KeyClauses(content)]

\* ' '.join([block.get('text', '') for block in data['blocks'] if block.get('text')])
RECURSIVE JoinBlockTexts(_)
JoinBlockTexts(blocks) ==
    IF blocks = <<>> THEN <<>>
    ELSE IF Head(blocks).text = <<>> THEN JoinBlockTexts(Tail(blocks))
    ELSE IF \A b \in 2..Len(blocks) : blocks[b].text = <<>> THEN Head(blocks).text
    ELSE Head(blocks).text \o <<" ">> \o JoinBlockTexts(Tail(blocks))

\* ContractParser._extract_entities_from_json
extract_entities_from_json(blocks) == [key_clauses |-> KeyClauses(JoinBlockTexts(blocks))]

\* ------------------------------------------------------- title and number

\* (.+)$ of the title pattern after the '#'s that end before index p, \s+ having
\* taken k characters of white space: the longest \s+ that leaves a character of
\* the line to .+ is the one that matches
RECURSIVE TitleGroup(_, _, _)
TitleGroup(s, p, k) ==
    IF k < 1 THEN NoGroup
    ELSE IF CharAt(s, p + k) \notin {"", "\n"}
    THEN Group(SubSeq(s, p + k, p + k + RunLenNot(s, p + k, {"\n"}) - 1))
    ELSE TitleGroup(s, p, k - 1)

\* r'^#{1,2}\s+(.+)$' at the start i of a line, which has n '#'s there
TitleAt(s, i, n) ==
    IF n \in {1, 2} THEN TitleGroup(s, i + n, RunLen(s, i + n, Whitespace)) ELSE NoGroup

RECURSIVE TitleSearch(_, _)
TitleTried(s, i, g) == IF g.ok THEN Group(Strip(g.text)) ELSE TitleSearch(s, i + 1)

\* re.search(r'^#{1,2}\s+(.+)$', content, re.MULTILINE) from index i on:
\* group(1).strip()
TitleSearch(s, i) ==
    IF i > Len(s) THEN NoGroup
    ELSE IF i = 1 \/ s[i - 1] = "\n" THEN TitleTried(s, i, TitleAt(s, i, RunLen(s, i, {"#"})))
    ELSE TitleSearch(s, i + 1)

\* [A-Z0-9\-_/] under (?i)
NumberChars == Letters \cup Digits \cup {"-", "_", "/"}

\* [A-Z0-9\-_/] of the bold pattern, which has no (?i)
NumberCharsUpper == DOMAIN UpperToLower \cup Digits \cup {"-", "_", "/"}

\* [\s:]
Separators == Whitespace \cup {":"}

\* The alternatives of contract_num_pattern, each the words that \s+ separates
NumberKeywords ==
    << <<<<"c", "o", "n", "t", "r", "a", "c", "t">>, <<"n", "u", "m", "b", "e", "r">>>>,
       <<<<"n", "ú", "m", "e", "r", "o">>, <<"d", "o">>, <<"c", "o", "n", "t", "r", "a", "t", "o">>>>,
       <<<<"r", "e", "f">>>>,
       <<<<"r", "e", "f", "e", "r", "e", "n", "c", "e">>>> >>

\* The index after the words when they are at index i with \s+ between them, or 0
RECURSIVE WordsEnd(_, _, _)
WordsEnd(s, i, words) ==
    IF ~HasWordAt(s, i, Head(words)) THEN 0
    ELSE IF Len(words) = 1 THEN i + Len(Head(words))
    ELSE IF RunLen(s, i + Len(Head(words)), Whitespace) = 0 THEN 0
    ELSE WordsEnd(s, i + Len(Head(words)) + RunLen(s, i + Len(Head(words)), Whitespace), Tail(words))

\* ([A-Z0-9\-_/]+) at index b, n characters long
NumberGroup(s, b, n) == IF n >= 1 THEN Group(SubSeq(s, b, b + n - 1)) ELSE NoGroup

\* [\s:]*([A-Z0-9\-_/]+) at index p
NumberAfter(s, p, class) ==
    NumberGroup(s, p + RunLen(s, p, Separators), RunLen(s, p + RunLen(s, p, Separators), class))

RECURSIVE NumberAlternatives(_, _, _)
NumberKeyword(s, i, k, e) ==
    IF e # 0 /\ NumberAfter(s, e, NumberChars).ok THEN NumberAfter(s, e, NumberChars)
    ELSE NumberAlternatives(s, i, k + 1)

\* contract_num_pattern tried at index i, from its alternative k on
NumberAlternatives(s, i, k) ==
    IF k > Len(NumberKeywords) THEN NoGroup
    ELSE NumberKeyword(s, i, k, WordsEnd(s, i, NumberKeywords[k]))

RECURSIVE NumberSearch(_, _)
NumberTried(s, i, g) == IF g.ok THEN g ELSE NumberSearch(s, i + 1)

\* re.search(contract_num_pattern, content) from index i on: group(1)
NumberSearch(s, i) ==
    IF i > Len(s) THEN NoGroup ELSE NumberTried(s, i, NumberAlternatives(s, i, 1))

ContractNumberLabel == <<"*", "*", "C", "o", "n", "t", "r", "a", "c", "t", " ", "N", "u", "m", "b", "e", "r", ":", "*", "*">>

RECURSIVE BoldNumberSearch(_, _)
BoldNumberTried(s, i, g) == IF g.ok THEN g ELSE BoldNumberSearch(s, i + 1)

\* re.search(r'\*\*Contract Number:\*\*\s*([A-Z0-9\-_/]+)', content) from index i on
BoldNumberSearch(s, i) ==
    IF i > Len(s) THEN NoGroup
    ELSE IF HasTextAt(s, i, ContractNumberLabel)
    THEN BoldNumberTried(s, i,
             NumberGroup(s, i + Len(ContractNumberLabel) + RunLen(s, i + Len(ContractNumberLabel), Whitespace),
                         RunLen(s, i + Len(ContractNumberLabel) + RunLen(s, i + Len(ContractNumberLabel), Whitespace),
                                NumberCharsUpper)))
    ELSE BoldNumberSearch(s, i + 1)

\* The 'contract_number' of _extract_metadata_from_markdown
MarkdownNumber(content, g) == IF NonEmpty(g) THEN g ELSE BoldNumberSearch(content, 1)

\* ----------------------------------------------------------------- parties

ClientKeywords == <<<<"c", "l", "i", "e", "n", "t", "e">>, <<"c", "l", "i", "e", "n", "t">>, <<"c", "o", "n", "t", "r", "a", "t", "a", "n", "t", "e">>, <<"b", "u", "y", "e", "r">>>>
CompanyKeywords == <<<<"e", "m", "p", "r", "e", "s", "a">>, <<"c", "o", "m", "p", "a", "n", "y">>, <<"c", "o", "r", "p", "o", "r", "a", "t", "i", "o", "n">>>>
VendorKeywords == <<<<"f", "o", "r", "n", "e", "c", "e", "d", "o", "r">>, <<"v", "e", "n", "d", "o", "r">>, <<"c", "o", "n", "t", "r", "a", "t", "a", "d", "o">>, <<"s", "e", "l", "l", "e", "r">>, <<"s", "u", "p", "p", "l", "i", "e", "r">>>>
ProviderKeywords == <<<<"p", "r", "e", "s", "t", "a", "d", "o", "r">>, <<"p", "r", "o", "v", "i", "d", "e", "r">>, <<"c", "o", "n", "t", "r", "a", "c", "t", "o", "r">>>>

\* The words of the lookahead of the client patterns, and of the vendor patterns
VendorWords == <<<<"f", "o", "r", "n", "e", "c", "e", "d", "o", "r">>, <<"v", "e", "n", "d", "o", "r">>, <<"c", "o", "n", "t", "r", "a", "t", "a", "d", "o">>, <<"s", "e", "l", "l", "e", "r">>, <<"s", "u", "p", "p", "l", "i", "e", "r">>>> \o <<<<"p", "r", "e", "s", "t", "a", "d", "o", "r">>, <<"p", "r", "o", "v", "i", "d", "e", "r">>, <<"c", "o", "n", "t", "r", "a", "c", "t", "o", "r">>>>
ClientWords == <<<<"c", "l", "i", "e", "n", "t", "e">>, <<"c", "l", "i", "e", "n", "t">>, <<"c", "o", "n", "t", "r", "a", "t", "a", "n", "t", "e">>, <<"b", "u", "y", "e", "r">>>> \o <<<<"e", "m", "p", "r", "e", "s", "a">>, <<"c", "o", "m", "p", "a", "n", "y">>, <<"c", "o", "r", "p", "o", "r", "a", "t", "i", "o", "n">>>>

\* [A-Za-z\s&\.]
NameChars == Letters \cup Whitespace \cup {"&", "."}

\* (?=\s+(?:words)|$) at index j
NameEnds(s, j, words) ==
    \/ RunLen(s, j, Whitespace) >= 1 /\ FirstWordAt(s, j + RunLen(s, j, Whitespace), words, 1) # 0
    \/ j = Len(s) + 1
    \/ j = Len(s) /\ s[j] = "\n"

\* ([A-Z][A-Za-z\s&\.]+?) from index b on, grown to end before j: the lazy
\* group ends at the first index where the lookahead holds
RECURSIVE LazyName(_, _, _, _)
LazyName(s, b, j, words) ==
    IF NameEnds(s, j, words) THEN Group(SubSeq(s, b, j - 1))
    ELSE IF CharAt(s, j) \in NameChars THEN LazyName(s, b, j + 1, words)
    ELSE NoGroup

\* [\s:]*([A-Z][A-Za-z\s&\.]+?)(?=...) with the group at index b; under (?i)
\* [A-Z] is any letter
NameAfter(s, b, words) ==
    IF CharAt(s, b) \in Letters /\ CharAt(s, b + 1) \in NameChars
    THEN LazyName(s, b, b + 2, words)
    ELSE NoGroup

RECURSIVE PartyAlternatives(_, _, _, _, _)
PartyKeyword(s, i, keywords, k, words, g) ==
    IF g.ok THEN g ELSE PartyAlternatives(s, i, keywords, k + 1, words)

\* A party pattern tried at index i, from its keyword k on
PartyAlternatives(s, i, keywords, k, words) ==
    IF k > Len(keywords) THEN NoGroup
    ELSE IF HasWordAt(s, i, keywords[k])
    THEN PartyKeyword(s, i, keywords, k, words,
             NameAfter(s, i + Len(keywords[k]) + RunLen(s, i + Len(keywords[k]), Separators), words))
    ELSE PartyAlternatives(s, i, keywords, k + 1, words)

RECURSIVE PartySearch(_, _, _, _)
PartyTried(s, i, keywords, words, g) ==
    IF g.ok THEN Group(Strip(g.text)) ELSE PartySearch(s, i + 1, keywords, words)

\* re.search(pattern, content) from index i on: group(1).strip()
PartySearch(s, i, keywords, words) ==
    IF i > Len(s) THEN NoGroup
    ELSE PartyTried(s, i, keywords, words, PartyAlternatives(s, i, keywords, 1, words))

\* `for pattern in patterns: ... break`: the first pattern that matches
FirstPattern(first, content, keywords, words) ==
    IF first.ok THEN first ELSE PartySearch(content, 1, keywords, words)

\* ContractParser._extract_parties: a key of the dict is absent without a match
extract_parties(content) ==
    [client_name |-> FirstPattern(PartySearch(content, 1, ClientKeywords, VendorWords),
                                  content, CompanyKeywords, VendorWords),
     vendor_name |-> FirstPattern(PartySearch(content, 1, VendorKeywords, ClientWords),
                                  content, ProviderKeywords, ClientWords)]

\* dict.update: the keys of `parties` replace those of the metadata
Update(so_far, parties) ==
    [client_name |-> IF parties.client_name.ok THEN parties.client_name ELSE so_far.client_name,
     vendor_name |-> IF parties.vendor_name.ok THEN parties.vendor_name ELSE so_far.vendor_name]

NoParties == [client_name |-> NoGroup, vendor_name |-> NoGroup]

ClientLabel == <<"*", "*", "C", "l", "i", "e", "n", "t", ":", "*", "*">>
VendorLabel == <<"*", "*", "V", "e", "n", "d", "o", "r", ":", "*", "*">>

\* ([A-Z][A-Za-z\s&\.]+) at index b, without (?i)
BoldPartyName(s, b) ==
    IF CharAt(s, b) \in DOMAIN UpperToLower /\ CharAt(s, b + 1) \in NameChars
    THEN Group(Strip(SubSeq(s, b, b + RunLen(s, b + 1, NameChars))))
    ELSE NoGroup

RECURSIVE BoldPartySearch(_, _, _)
BoldPartyTried(label, s, i, g) == IF g.ok THEN g ELSE BoldPartySearch(label, s, i + 1)

\* re.search(label + r'\s*([A-Z][A-Za-z\s&\.]+)', content) from index i on:
\* group(1).strip()
BoldPartySearch(label, s, i) ==
    IF i > Len(s) THEN NoGroup
    ELSE IF HasTextAt(s, i, label)
    THEN BoldPartyTried(label, s, i, BoldPartyName(s, i + Len(label) + RunLen(s, i + Len(label), Whitespace)))
    ELSE BoldPartySearch(label, s, i + 1)

\* `if not metadata.get(...)`: the bold line is looked for
BoldParty(label, content, g) == IF NonEmpty(g) THEN g ELSE BoldPartySearch(label, content, 1)

\* The parties of _extract_metadata_from_markdown
MarkdownParties(content, parties) ==
    [client_name |-> BoldParty(ClientLabel, content, parties.client_name),
     vendor_name |-> BoldParty(VendorLabel, content, parties.vendor_name)]

\* ----------------------------------------------------------- contract type

\* The terms of _detect_contract_type, in the order of its if and elif branches
ContractTypeTerms ==
    << [type |-> "msa",
        terms |-> <<<<"m", "a", "s", "t", "e", "r", " ", "s", "e", "r", "v", "i", "c", "e", " ", "a", "g", "r", "e", "e", "m", "e", "n", "t">>, <<"m", "s", "a">>, <<"a", "c", "o", "r", "d", "o", " ", "q", "u", "a", "d", "r", "o">>>>],
       [type |-> "lsa",
        terms |-> <<<<"l", "o", "c", "a", "l", " ", "s", "e", "r", "v", "i", "c", "e", " ", "a", "g", "r", "e", "e", "m", "e", "n", "t">>, <<"l", "s", "a">>, <<"a", "c", "o", "r", "d", "o", " ", "l", "o", "c", "a", "l">>>>],
       [type |-> "sow",
        terms |-> <<<<"s", "t", "a", "t", "e", "m", "e", "n", "t", " ", "o", "f", " ", "w", "o", "r", "k">>, <<"s", "o", "w">>, <<"e", "s", "c", "o", "p", "o", " ", "d", "e", " ", "t", "r", "a", "b", "a", "l", "h", "o">>>>],
       [type |-> "pwo",
        terms |-> <<<<"p", "r", "o", "j", "e", "c", "t", " ", "w", "o", "r", "k", " ", "o", "r", "d", "e", "r">>, <<"p", "w", "o">>, <<"o", "r", "d", "e", "m", " ", "d", "e", " ", "s", "e", "r", "v", "i", "ç", "o">>>>],
       [type |-> "cr",
        terms |-> <<<<"c", "h", "a", "n", "g", "e", " ", "r", "e", "q", "u", "e", "s", "t">>, <<"c", "r">>, <<"s", "o", "l", "i", "c", "i", "t", "a", "ç", "ã", "o", " ", "d", "e", " ", "m", "u", "d", "a", "n", "ç", "a">>>>],
       [type |-> "cnf",
        terms |-> <<<<"c", "h", "a", "n", "g", "e", " ", "n", "o", "t", "i", "f", "i", "c", "a", "t", "i", "o", "n", " ", "f", "o", "r", "m">>, <<"c", "n", "f">>, <<"f", "o", "r", "m", "u", "l", "á", "r", "i", "o", " ", "d", "e", " ", "n", "o", "t", "i", "f", "i", "c", "a", "ç", "ã", "o">>>>] >>

RECURSIVE DetectFrom(_, _)
DetectFrom(content_lower, k) ==
    IF k > Len(ContractTypeTerms) THEN "None"
    ELSE IF \E t \in DOMAIN ContractTypeTerms[k].terms :
                Contains(content_lower, ContractTypeTerms[k].terms[t])
    THEN ContractTypeTerms[k].type
    ELSE DetectFrom(content_lower, k + 1)

\* ContractParser._detect_contract_type: a ContractType, or "None"
detect_contract_type(content) == DetectFrom(Lower(content), 1)

\* repr() of a str: the escapes of a character
ReprChar(c) ==
    IF c = "\n" THEN <<"\\", "n">>
    ELSE IF c = "\t" THEN <<"\\", "t">>
    ELSE IF c = "\\" THEN <<"\\", "\\">>
    ELSE <<c>>

RECURSIVE ReprChars(_, _)
ReprChars(text, quote) ==
    IF text = <<>> THEN <<>>
    ELSE (IF Head(text) = quote THEN <<"\\", quote>> ELSE ReprChar(Head(text)))
             \o ReprChars(Tail(text), quote)

\* The quote repr() writes a str in
ReprQuote(text) ==
    IF (\E i \in DOMAIN text : text[i] = "'") /\ ~(\E i \in DOMAIN text : text[i] = "\"")
    THEN "\"" ELSE "'"

\* repr() of a str
Repr(text) == <<ReprQuote(text)>> \o ReprChars(text, ReprQuote(text)) \o <<ReprQuote(text)>>

\* The characters of a block's type
TypeText(type) ==
    CASE type = "heading" -> <<"h", "e", "a", "d", "i", "n", "g">>
      [] type = "paragraph" -> <<"p", "a", "r", "a", "g", "r", "a", "p", "h">>
      [] OTHER -> <<"t", "a", "b", "l", "e">>

\* repr() of a block, a dict with the keys 'type' and 'text'
ReprBlock(block) ==
    <<"{", "'", "t", "y", "p", "e", "'", ":", " ">> \o Repr(TypeText(block.type))
        \o <<",", " ", "'", "t", "e", "x", "t", "'", ":", " ">> \o Repr(block.text) \o <<"}">>

RECURSIVE ReprBlocks(_)
ReprBlocks(blocks) ==
    IF blocks = <<>> THEN <<>>
    ELSE IF Len(blocks) = 1 THEN ReprBlock(blocks[1])
    ELSE ReprBlock(blocks[1]) \o <<",", " ">> \o ReprBlocks(Tail(blocks))

\* str(data) of the dict json.load returned, whose one key is 'blocks'
StrData(blocks) == <<"{", "'", "b", "l", "o", "c", "k", "s", "'", ":", " ", "[">> \o ReprBlocks(blocks) \o <<"]", "}">>

\* ------------------------------------------------- metadata and assembly

\* re.search(label + r'\s*(\d{1,2}/\d{1,2}/\d{4})', content) from index i on:
\* the text of the whole match, or <<>> without a match
RECURSIVE BoldDateSearch(_, _, _)
BoldDateSearch(label, s, i) ==
    IF i + Len(label) - 1 > Len(s) THEN <<>>
    ELSE LET j == i + Len(label)
             k == j + RunLen(s, j, Whitespace)
             m == MatchSlashDate(s, k)
         IN  IF SubSeq(s, i, j - 1) = label /\ m.ok
             THEN SubSeq(s, i, m.end - 1)
             ELSE BoldDateSearch(label, s, i + 1)

EffectiveLabel == <<"*", "*", "E", "f", "f", "e", "c", "t", "i", "v", "e", " ", "D", "a", "t", "e", ":", "*", "*">>

ExpirationLabel == <<"*", "*", "E", "x", "p", "i", "r", "a", "t", "i", "o", "n", " ", "D", "a", "t", "e", ":", "*", "*">>

\* The 'dates' of _extract_metadata_from_markdown: the dates of the whole text,
\* and without any the dates of the bold Effective Date and Expiration Date lines
MarkdownDates(content) ==
    LET found_dates == extract_dates(content)
        effective == BoldDateSearch(EffectiveLabel, content, 1)
        bold_effective == IF effective # <<>> THEN extract_dates(effective) ELSE <<>>
        expiration == BoldDateSearch(ExpirationLabel, content, 1)
        bold_expiration ==
            IF expiration # <<>> /\ bold_effective # <<>> THEN extract_dates(expiration) ELSE <<>>
    IN  IF found_dates # <<>> THEN found_dates ELSE bold_effective \o bold_expiration

\* ContractParser._extract_metadata_from_markdown; a key without a match is absent
extract_metadata_from_markdown(content) ==
    [title |-> TitleSearch(content, 1),
     contract_number |-> MarkdownNumber(content, NumberSearch(content, 1)),
     currency |-> CurrencySearch(content, 1),
     total_value |-> MarkdownTotalValue(content, CurrencySearch(content, 1)),
     dates |-> MarkdownDates(content),
     client_name |-> MarkdownParties(content, extract_parties(content)).client_name,
     vendor_name |-> MarkdownParties(content, extract_parties(content)).vendor_name,
     contract_type |-> detect_contract_type(content)]

MutantEveryBlocksDates(so_far, block) ==
    IF block.type = "paragraph" THEN so_far \o extract_dates(block.text) ELSE so_far

\* The loop body of _extract_metadata_from_json for 'dates': a paragraph's dates
\* are taken only while the metadata has none
BlockDates(so_far, block) ==
    IF block.type = "paragraph" /\ so_far = <<>> THEN extract_dates(block.text) ELSE so_far

RECURSIVE FoldBlocks(_, _)
FoldBlocks(so_far, blocks) ==
    IF blocks = <<>> THEN so_far ELSE FoldBlocks(BlockDates(so_far, Head(blocks)), Tail(blocks))

\* The loop body of _extract_metadata_from_json for 'currency'
BlockCurrency(so_far, block) ==
    IF block.type = "paragraph" /\ ~NonEmpty(so_far) /\ CurrencySearch(block.text, 1).ok
    THEN CurrencySearch(block.text, 1) ELSE so_far

RECURSIVE FoldCurrency(_, _)
FoldCurrency(so_far, blocks) ==
    IF blocks = <<>> THEN so_far ELSE FoldCurrency(BlockCurrency(so_far, Head(blocks)), Tail(blocks))

\* The loop body of _extract_metadata_from_json for 'title'
BlockTitle(so_far, block) ==
    IF block.type = "heading" /\ ~NonEmpty(so_far) THEN Group(Strip(block.text)) ELSE so_far

RECURSIVE FoldTitle(_, _)
FoldTitle(so_far, blocks) ==
    IF blocks = <<>> THEN so_far ELSE FoldTitle(BlockTitle(so_far, Head(blocks)), Tail(blocks))

\* The loop body of _extract_metadata_from_json for 'contract_number'
BlockNumber(so_far, block) ==
    IF block.type = "paragraph" /\ ~NonEmpty(so_far) /\ NumberSearch(block.text, 1).ok
    THEN NumberSearch(block.text, 1) ELSE so_far

RECURSIVE FoldNumber(_, _)
FoldNumber(so_far, blocks) ==
    IF blocks = <<>> THEN so_far ELSE FoldNumber(BlockNumber(so_far, Head(blocks)), Tail(blocks))

\* The loop body of _extract_metadata_from_json for the parties: while one of
\* the two is missing, what a paragraph has of either is taken
BlockParties(so_far, block) ==
    IF block.type = "paragraph" /\ (~NonEmpty(so_far.client_name) \/ ~NonEmpty(so_far.vendor_name))
    THEN Update(so_far, extract_parties(block.text))
    ELSE so_far

RECURSIVE FoldParties(_, _)
FoldParties(so_far, blocks) ==
    IF blocks = <<>> THEN so_far ELSE FoldParties(BlockParties(so_far, Head(blocks)), Tail(blocks))

\* ContractParser._extract_metadata_from_json; it looks for no amount
extract_metadata_from_json(blocks) ==
    [title |-> FoldTitle(NoGroup, blocks),
     contract_number |-> FoldNumber(NoGroup, blocks),
     currency |-> FoldCurrency(NoGroup, blocks),
     total_value |-> Absent,
     dates |-> FoldBlocks(<<>>, blocks),
     client_name |-> FoldParties(NoParties, blocks).client_name,
     vendor_name |-> FoldParties(NoParties, blocks).vendor_name,
     contract_type |-> detect_contract_type(StrData(blocks))]

\* -------------------------------------------------------------- confidence

\* The confidence score is kept exact, in fifteenths of a check: 1.0 is 15

\* `score += 1.0` under a condition
Check(present) == IF present THEN 15 ELSE 0

Min(a, b) == IF a <= b THEN a ELSE b

MutantUncapped(n) == 3 * n

\* min(len(sections) / 5.0, 1.0)
SectionsScore(n) == Min(3 * n, 15)

\* min(len(entities['key_clauses']) / 3.0, 1.0)
ClausesScore(n) == Min(5 * n, 15)

\* `metadata.get('client_name') and metadata.get('vendor_name')`
BothParties(meta) == NonEmpty(meta.client_name) /\ NonEmpty(meta.vendor_name)

\* The six additions to total_checks
total_checks == 6

\* ContractParser._calculate_confidence: score / total_checks as a fraction
calculate_confidence(meta, sections, ents) ==
    [num |-> Check(NonEmpty(meta.title)) + Check(NonEmpty(meta.contract_number))
               + Check(BothParties(meta)) + Check(meta.dates # <<>>)
               + SectionsScore(Len(sections)) + ClausesScore(Cardinality(ents.key_clauses)),
     den |-> 15 * total_checks]

\* hash(file_path) of a str: a function of the process's seed and the string
\* (PYTHONHASHSEED is random unless set), taken to be free of collisions
StrHash(seed, str) == <<seed, str>>

\* content[:1000]
ContentKept == 1000

\* ContractParser._create_document_model; Document's default_factory stamps uploaded_at
create_document_model(file_path, content, seed, now) ==
    [id |-> StrHash(seed, file_path),
     filename |-> file_path,
     file_path |-> file_path,
     content |-> Take(content, ContentKept),
     uploaded_at |-> now]

\* metadata.get('currency', 'USD')
DefaultCurrency == <<"U", "S", "D">>

\* metadata.get('contract_number', 'N/A') and the like: the default of a key
\* that is absent
NotAvailable == <<"N", "/", "A">>

GetOr(g, default) == IF g.ok THEN g.text ELSE default

\* ContractParser._create_contract_model: the first two entries of 'dates'
create_contract_model(document, meta, sections, ents, now) ==
    [document |-> document,
     contract_type |-> IF meta.contract_type = "None" THEN "msa" ELSE meta.contract_type,
     contract_number |-> GetOr(meta.contract_number, NotAvailable),
     contract_name |-> GetOr(meta.title, document.filename),
     client_name |-> GetOr(meta.client_name, NotAvailable),
     vendor_name |-> GetOr(meta.vendor_name, NotAvailable),
     effective_date |-> IF Len(meta.dates) >= 1 THEN meta.dates[1].date ELSE NoDate,
     expiration_date |-> IF Len(meta.dates) >= 2 THEN meta.dates[2].date ELSE NoDate,
     total_value |-> IF meta.total_value = Absent THEN None ELSE meta.total_value,
     currency |-> GetOr(meta.currency, DefaultCurrency),
     entities |->
         [sections |-> sections,
          extracted_entities |-> ents,
          parsing_metadata |->
              [parser_version |-> "1.0",
               extraction_date |-> now,
               confidence_score |-> calculate_confidence(meta, sections, ents)]]]

\* ------------------------------------------------------------- documents

\* The most date texts and labels in a document
MaxTokens == 3

\* What a document is made of: dates in the three formats (day first, ISO, month
\* name), a 31st of February, and the bold label of the fallback
DocTokens ==
    { <<"1", "/", "2", "/", "2", "0", "2", "4">>,
      <<"3", "1", "/", "1", "2", "/", "2", "0", "2", "3">>,
      <<"2", "0", "2", "4", "-", "3", "-", "5">>,
      <<"1", "5", " ", "m", "a", "r", " ", "2", "0", "2", "4">>,
      <<"3", "1", "/", "2", "/", "2", "0", "2", "4">>,
      EffectiveLabel }

\* The calendar date a token is, for the tokens that are one
TokenDate(t) ==
    CASE t = <<"1", "/", "2", "/", "2", "0", "2", "4">> -> Date(2024, 2, 1)
      [] t = <<"3", "1", "/", "1", "2", "/", "2", "0", "2", "3">> -> Date(2023, 12, 31)
      [] t = <<"2", "0", "2", "4", "-", "3", "-", "5">> -> Date(2024, 3, 5)
      [] t = <<"1", "5", " ", "m", "a", "r", " ", "2", "0", "2", "4">> -> Date(2024, 3, 15)
      [] OTHER -> NoDate

TokenSeqs == UNION {[1..k -> DocTokens] : k \in 0..MaxTokens}

RECURSIVE JoinTokens(_)
JoinTokens(ts) ==
    IF ts = <<>> THEN <<>>
    ELSE IF Len(ts) = 1 THEN ts[1]
    ELSE ts[1] \o <<" ">> \o JoinTokens(Tail(ts))

\* The offset in JoinTokens(ts) at which token i starts
RECURSIVE TokenOffset(_, _)
TokenOffset(ts, i) == IF i = 1 THEN 0 ELSE TokenOffset(ts, i - 1) + Len(ts[i - 1]) + 1

Paragraph(text) == [type |-> "paragraph", text |-> text]

\* The tokens as paragraph blocks: a new block starts at each token in `cuts`
RECURSIVE BlocksOf(_, _, _)
BlocksOf(ts, cuts, i) ==
    IF i > Len(ts) THEN <<>>
    ELSE LET rest == BlocksOf(ts, cuts, i + 1)
         IN  IF rest # <<>> /\ (i + 1) \notin cuts
             THEN <<Paragraph(ts[i] \o <<" ">> \o rest[1].text)>> \o Tail(rest)
             ELSE <<Paragraph(ts[i])>> \o rest

MarkdownPath == <<"c", ".", "m", "d">>
JsonPath == <<"c", ".", "j", "s", "o", "n">>

MarkdownDoc(ts) ==
    [kind |-> "markdown", file_path |-> MarkdownPath, tokens |-> ts, content |-> JoinTokens(ts), blocks |-> <<>>]

JsonDoc(ts, cuts) ==
    [kind |-> "json", file_path |-> JsonPath, tokens |-> ts, content |-> <<>>, blocks |-> BlocksOf(ts, cuts, 1)]

Docs ==
    {MarkdownDoc(ts) : ts \in TokenSeqs}
        \cup UNION {{JsonDoc(ts, cuts) : cuts \in SUBSET (2..Len(ts))} : ts \in TokenSeqs}

\* ---------------------------------------------------------------- parsing

\* The latest reading of the clock
MaxClock == 2

\* The most parses of one file
MaxRuns == 2

\* The string hash seeds a process can start with
HashSeeds == {0, 1}

ParseInit(docs) ==
    /\ doc \in docs
    /\ clock = 0
    /\ hash_seed = 0
    /\ dates = <<>>
    /\ metadata = <<>>
    /\ contracts = <<>>
    /\ parse_pc = "input"

\* A direct call of ContractParser._extract_dates on a text
ExtractDates ==
    /\ parse_pc = "input"
    /\ doc.kind = "markdown"
    /\ dates' = extract_dates(doc.content)
    /\ parse_pc' = "dates"
    /\ UNCHANGED <<doc, clock, hash_seed, metadata, contracts>>
    /\ UNCHANGED notParseVars

\* The Document and the Contract of one parse; the clock is read when the
\* Document is built and again, no earlier, when the Contract is built
Assemble(content, meta, sections, ents) ==
    \E later \in {0, 1} :
        /\ clock + later <= MaxClock
        /\ clock' = clock + later
        /\ contracts' = Append(contracts,
               create_contract_model(
                   create_document_model(doc.file_path, content, hash_seed, clock),
                   meta, sections, ents, clock + later))

\* ContractParser.parse_from_markdown
ParseFromMarkdown ==
    /\ parse_pc \in {"input", "dates"}
    /\ doc.kind = "markdown"
    /\ metadata' = extract_metadata_from_markdown(doc.content)
    /\ Assemble(doc.content, metadata', extract_sections_from_markdown(doc.content),
                extract_entities_from_markdown(doc.content))
    /\ parse_pc' = "parsed"
    /\ UNCHANGED <<doc, hash_seed, dates>>
    /\ UNCHANGED notParseVars

\* ContractParser.parse_from_json
ParseFromJson ==
    /\ parse_pc \in {"input", "dates"}
    /\ doc.kind = "json"
    /\ metadata' = extract_metadata_from_json(doc.blocks)
    /\ Assemble(StrData(doc.blocks), metadata', extract_sections_from_json(doc.blocks),
                extract_entities_from_json(doc.blocks))
    /\ parse_pc' = "parsed"
    /\ UNCHANGED <<doc, hash_seed, dates>>
    /\ UNCHANGED notParseVars

DatesNext == ExtractDates \/ ParseFromMarkdown \/ ParseFromJson

InitDates == ParseInit(Docs) /\ DedupIdle /\ AmountIdle /\ ExtractIdle /\ ValidateIdle /\ BatchIdle /\ LlmIdle /\ SanitizeIdle /\ OrganizeIdle /\ HandlerIdle /\ ChunkIdle

SpecDates == InitDates /\ [][DatesNext]_vars

\* Time passes between two parses
Tick ==
    /\ parse_pc = "parsed"
    /\ clock < MaxClock
    /\ clock' = clock + 1
    /\ UNCHANGED <<doc, hash_seed, dates, metadata, contracts, parse_pc>>
    /\ UNCHANGED notParseVars

\* The program is started again: a new process has its own hash seed
NewProcess ==
    /\ parse_pc = "parsed"
    /\ \E seed \in HashSeeds \ {hash_seed} : hash_seed' = seed
    /\ UNCHANGED <<doc, clock, dates, metadata, contracts, parse_pc>>
    /\ UNCHANGED notParseVars

\* The same file, unchanged, is given to the parser once more
ParseAgain ==
    /\ parse_pc = "parsed"
    /\ Len(contracts) < MaxRuns
    /\ parse_pc' = "input"
    /\ UNCHANGED <<doc, clock, hash_seed, dates, metadata, contracts>>
    /\ UNCHANGED notParseVars

\* The files of the repeated parses: at most one token
RerunDocs == {d \in Docs : Len(d.tokens) <= 1}

RerunNext == ExtractDates \/ ParseFromMarkdown \/ ParseFromJson \/ Tick \/ NewProcess \/ ParseAgain

InitRerun == ParseInit(RerunDocs) /\ DedupIdle /\ AmountIdle /\ ExtractIdle /\ ValidateIdle /\ BatchIdle /\ LlmIdle /\ SanitizeIdle /\ OrganizeIdle /\ HandlerIdle /\ ChunkIdle

SpecRerun == InitRerun /\ [][RerunNext]_vars

\* ------------------------------------------------- properties of the dates

\* The entry _extract_dates owes to token i of the text, were every format read
Extracted(i) ==
    \E k \in 1..Len(dates) :
        /\ dates[k].position = TokenOffset(doc.tokens, i)
        /\ dates[k].date = TokenDate(doc.tokens[i])
        /\ dates[k].text = doc.tokens[i]

\* C8: _extract_dates returns an entry for every well-formed calendar date of
\* the text in any of the formats DD/MM/YYYY, YYYY-MM-DD and DD Month YYYY, and
\* the list is in ascending order of position whichever format matched.
EveryDateExtracted ==
    parse_pc = "dates" =>
        /\ \A i \in 1..Len(doc.tokens) : TokenDate(doc.tokens[i]) # NoDate => Extracted(i)
        /\ \A k \in 1..(Len(dates) - 1) : dates[k].position <= dates[k + 1].position

\* The dates of a document in document order: those _extract_dates finds in the
\* markdown text, or in the paragraph blocks one after the other
RECURSIVE AllBlockDates(_)
AllBlockDates(blocks) ==
    IF blocks = <<>> THEN <<>>
    ELSE (IF Head(blocks).type = "paragraph" THEN extract_dates(Head(blocks).text) ELSE <<>>)
             \o AllBlockDates(Tail(blocks))

DocumentDates == IF doc.kind = "markdown" THEN extract_dates(doc.content) ELSE AllBlockDates(doc.blocks)

\* The dates the first paragraph block with a date has
FirstDatedBlock ==
    LET dated == {b \in 1..Len(doc.blocks) :
                     doc.blocks[b].type = "paragraph" /\ extract_dates(doc.blocks[b].text) # <<>>}
    IN  IF dated = {} THEN <<>>
        ELSE extract_dates(doc.blocks[CHOOSE b \in dated : \A c \in dated : b <= c].text)

ConsultedDates == IF doc.kind = "markdown" THEN extract_dates(doc.content) ELSE FirstDatedBlock

\* A contract's dates are the first two of `ds`, as far as there are any
FirstTwo(c, ds) ==
    /\ c.effective_date = IF Len(ds) >= 1 THEN ds[1].date ELSE NoDate
    /\ c.expiration_date = IF Len(ds) >= 2 THEN ds[2].date ELSE NoDate

\* C9 as stated: for a document, markdown or block-structured JSON, with at
\* least two valid dates the Contract's effective_date is the date first in
\* document order and its expiration_date the second; with exactly one date only
\* effective_date is set.
DatesInDocumentOrder ==
    \A k \in 1..Len(contracts) : Len(DocumentDates) >= 1 => FirstTwo(contracts[k], DocumentDates)

\* C9, amended: the Contract's effective_date and expiration_date are the first
\* and the second date of the text the metadata took its dates from, which is
\* the whole markdown text, and of a JSON document the first paragraph block
\* that has a date, and no block after it; with one date there only
\* effective_date is set, with none neither.
DatesOfConsultedText ==
    \A k \in 1..Len(contracts) : FirstTwo(contracts[k], ConsultedDates)

\* A JSON document with dates in two blocks, one date in the first of them, parsed
LaterBlockIgnored ==
    /\ parse_pc = "parsed"
    /\ doc.kind = "json"
    /\ Len(FirstDatedBlock) = 1
    /\ Len(AllBlockDates(doc.blocks)) >= 2
    /\ contracts[1].effective_date = FirstDatedBlock[1].date
    /\ contracts[1].expiration_date = NoDate

\* C10: every Contract the assembler returns has effective_date before
\* expiration_date when both are set.
EffectiveBeforeExpiration ==
    \A k \in 1..Len(contracts) :
        contracts[k].effective_date # NoDate /\ contracts[k].expiration_date # NoDate
            => DateLess(contracts[k].effective_date, contracts[k].expiration_date)

\* C3: two parses of the same file with the same content return Contract records
\* equal in every field, document.id, document.uploaded_at and
\* parsing_metadata.extraction_date included, whenever and in whichever process
\* they run.
RerunsEqual ==
    \A j, k \in 1..Len(contracts) : contracts[j] = contracts[k]

\* ------------------------------------------------------- the total value

\* The most words in a document with an amount
MaxValueTokens == 3

\* What a document with an amount is made of: currencies, a keyword, the bold
\* label, and amounts of which one is zero and one is no number
ValueTokens ==
    { <<"U", "S", "D">>,
      <<"R", "$">>,
      <<"T", "o", "t", "a", "l", ":">>,
      TotalValueLabel,
      <<"0">>,
      <<"1", ".", "0", "0", "0", ",", "5", "0">>,
      <<",">> }

ValueTokenSeqs == UNION {[1..k -> ValueTokens] : k \in 0..MaxValueTokens}

ValueDocs == {MarkdownDoc(ts) : ts \in ValueTokenSeqs} \cup {JsonDoc(ts, {}) : ts \in ValueTokenSeqs}

ValueNext == ParseFromMarkdown \/ ParseFromJson

InitValue == ParseInit(ValueDocs) /\ DedupIdle /\ AmountIdle /\ ExtractIdle /\ ValidateIdle /\ BatchIdle /\ LlmIdle /\ SanitizeIdle /\ OrganizeIdle /\ HandlerIdle /\ ChunkIdle

SpecValue == InitValue /\ [][ValueNext]_vars

\* x > 0 for a float x
Positive(x) ==
    \/ x.kind = "inf" /\ ~x.neg
    \/ x.kind = "num" /\ ~x.neg /\ x # Zero(FALSE)

\* C11: every Contract the assembler returns has total_value absent or greater
\* than 0, whatever amount text the patterns captured.
TotalValuePositive ==
    \A k \in 1..Len(contracts) :
        contracts[k].total_value = None \/ Positive(contracts[k].total_value)

\* An amount with '.' for the thousands and ',' before the decimals
BrazilianAmount == <<"1", ".", "0", "0", "0", ",", "5", "0">>

\* The number BrazilianAmount stands for, 1000.5
BrazilianAmountValue == Num(FALSE, <<"1", "0", "0", "0", "5">>, -1)

\* The documents that are one '**Total Value:** <amount>' line, the amount alone
\* or after a currency symbol
BoldValueLines ==
    { <<TotalValueLabel, BrazilianAmount>>,
      <<TotalValueLabel, <<"R", "$">>, BrazilianAmount>> }

\* C24: for a markdown document that is a '**Total Value:** <amount>' line whose
\* amount has '.' between the thousands and ',' before the decimals, with or
\* without a currency symbol before it, the Contract of parse_from_markdown has
\* total_value absent or equal to the number the amount stands for.
BoldTotalValueIsTheAmount ==
    ( /\ parse_pc = "parsed"
      /\ doc.kind = "markdown"
      /\ doc.tokens \in BoldValueLines ) =>
        \A k \in 1..Len(contracts) :
            contracts[k].total_value \in {None, BrazilianAmountValue}

\* ------------------------------------------------------------ the sections

\* The most lines in a document
MaxLines == 3

\* The lines a document is made of: headings of the three levels, two of them
\* with the same title, a line of text, a bold pair, an empty line, and a line
\* that begins with the characters #{1,2,3}
HeadingLines ==
    { [line |-> <<"#", " ", "A">>, title |-> <<"A">>],
      [line |-> <<"#", "#", " ", "B">>, title |-> <<"B">>],
      [line |-> <<"#", "#", "#", " ", "A">>, title |-> <<"A">>] }

TextLines == { <<"t", "e", "x", "t">>, <<"*", "*", "K", ":", "*", "*", " ", "v">>, <<>>, <<"#", "{", "1", ",", "2", ",", "3", "}", " ", "C">> }

LineTokens == {h.line : h \in HeadingLines} \cup TextLines

LineSeqs == UNION {[1..k -> LineTokens] : k \in 0..MaxLines}

\* The title of a heading line
TitleOf(line) == (CHOOSE h \in HeadingLines : h.line = line).title

IsHeading(line) == \E h \in HeadingLines : h.line = line

\* A markdown file of these lines
LinesDoc(ts) ==
    [kind |-> "markdown", file_path |-> MarkdownPath, tokens |-> ts, content |-> JoinLines(ts), blocks |-> <<>>]

\* A block of the structured form of a line
LineBlock(line) ==
    IF IsHeading(line) THEN [type |-> "heading", text |-> TitleOf(line)] ELSE Paragraph(line)

\* A JSON file with one block for each line
BlocksDoc(ts) ==
    [kind |-> "json", file_path |-> JsonPath, tokens |-> ts, content |-> <<>>,
     blocks |-> [i \in 1..Len(ts) |-> LineBlock(ts[i])]]

SectionDocs == {LinesDoc(ts) : ts \in LineSeqs} \cup {BlocksDoc(ts) : ts \in LineSeqs}

SectionsNext == ParseFromMarkdown \/ ParseFromJson

InitSections == ParseInit(SectionDocs) /\ DedupIdle /\ AmountIdle /\ ExtractIdle /\ ValidateIdle /\ BatchIdle /\ LlmIdle /\ SanitizeIdle /\ OrganizeIdle /\ HandlerIdle /\ ChunkIdle

SpecSections == InitSections /\ [][SectionsNext]_vars

\* The index after the lines that follow heading line i, up to the next heading
RECURSIVE SectionEnd(_, _)
SectionEnd(ts, j) == IF j <= Len(ts) /\ ~IsHeading(ts[j]) THEN SectionEnd(ts, j + 1) ELSE j

\* The text that follows heading line i
Following(ts, i) == Strip(JoinLines(SubSeq(ts, i + 1, SectionEnd(ts, i + 1) - 1)))

\* Heading line i has following text, and is the last such heading of its title
Sectioned(ts, i) ==
    /\ IsHeading(ts[i])
    /\ Following(ts, i) # <<>>
    /\ \A j \in (i + 1)..Len(ts) :
           IsHeading(ts[j]) /\ TitleOf(ts[j]) = TitleOf(ts[i]) => Following(ts, j) = <<>>

\* C12: for markdown content with heading lines ('#', '##' or '###' and a
\* title), _extract_sections_from_markdown returns a section for each heading
\* that has following text, keyed by the lowercased title and holding the lines
\* up to the next heading, and no section comes from a bold pair.
HeadingsGiveSections ==
    \A k \in 1..Len(contracts) :
        doc.kind = "markdown" /\ (\E i \in 1..Len(doc.tokens) : IsHeading(doc.tokens[i])) =>
            /\ \A i \in 1..Len(doc.tokens) :
                   Sectioned(doc.tokens, i) =>
                       /\ Lower(TitleOf(doc.tokens[i])) \in DictKeys(contracts[k].entities.sections)
                       /\ contracts[k].entities.sections[
                              DictGet(contracts[k].entities.sections, Lower(TitleOf(doc.tokens[i])))].value
                            = Following(doc.tokens, i)
            /\ \A key \in DictKeys(contracts[k].entities.sections) :
                   \E i \in 1..Len(doc.tokens) :
                       IsHeading(doc.tokens[i]) /\ key = Lower(TitleOf(doc.tokens[i]))

\* -------------------------------------------------- the fields of the blocks

\* The most blocks in a document
MaxBlocks == 3

\* The texts of the paragraphs: parties, contract numbers, currencies and dates,
\* and a text with none of them
ParagraphTexts ==
    { <<"C", "l", "i", "e", "n", "t", ":", " ", "A", "c", "m", "e">>,
      <<"C", "l", "i", "e", "n", "t", ":", " ", "B", "e", "t", "a", " ", "V", "e", "n", "d", "o", "r", ":", " ", "G", "a", "m", "m", "a">>,
      <<"V", "e", "n", "d", "o", "r", ":", " ", "D", "e", "e">>,
      <<"R", "e", "f", ":", " ", "X", "-", "1">>,
      <<"R", "e", "f", ":", " ", "Y", "-", "2", " ", "U", "S", "D">>,
      <<"E", "U", "R", " ", "1", "/", "2", "/", "2", "0", "2", "4">>,
      <<"2", "0", "2", "4", "-", "3", "-", "5">>,
      <<"t", "e", "x", "t">> }

\* The texts of the headings, one of them white space
HeadingTexts == { <<"T">>, <<"U">>, <<" ", " ">> }

FieldBlocks ==
    {Paragraph(t) : t \in ParagraphTexts} \cup {[type |-> "heading", text |-> t] : t \in HeadingTexts}

\* A JSON file of these blocks
FieldsDoc(blocks) ==
    [kind |-> "json", file_path |-> JsonPath, tokens |-> <<>>, content |-> <<>>, blocks |-> blocks]

FieldDocs == {FieldsDoc(bs) : bs \in UNION {[1..k -> FieldBlocks] : k \in 0..MaxBlocks}}

InitFields == ParseInit(FieldDocs) /\ DedupIdle /\ AmountIdle /\ ExtractIdle /\ ValidateIdle /\ BatchIdle /\ LlmIdle /\ SanitizeIdle /\ OrganizeIdle /\ HandlerIdle /\ ChunkIdle

SpecFields == InitFields /\ [][ParseFromJson]_vars

Fields == {"title", "contract_number", "currency", "client_name", "vendor_name", "dates"}

\* What a block has of a field: the match in it, NoGroup without one
MatchIn(block, field) ==
    CASE field = "title" ->
             IF block.type = "heading" /\ Strip(block.text) # <<>> THEN Group(Strip(block.text)) ELSE NoGroup
      [] block.type # "paragraph" -> NoGroup
      [] field = "contract_number" -> NumberSearch(block.text, 1)
      [] field = "currency" -> CurrencySearch(block.text, 1)
      [] field = "client_name" -> extract_parties(block.text).client_name
      [] field = "vendor_name" -> extract_parties(block.text).vendor_name
      [] field = "dates" ->
             IF extract_dates(block.text) # <<>> THEN Group(extract_dates(block.text)) ELSE NoGroup

\* The match of the first block, in document order, that has one
RECURSIVE FirstMatch(_, _)
FirstMatch(blocks, field) ==
    IF blocks = <<>> THEN NoGroup
    ELSE IF MatchIn(Head(blocks), field).ok THEN MatchIn(Head(blocks), field)
    ELSE FirstMatch(Tail(blocks), field)

\* The field as the metadata has it; an empty title counts as none
FieldOf(meta, field) ==
    IF field = "dates" THEN (IF meta.dates # <<>> THEN Group(meta.dates) ELSE NoGroup)
    ELSE IF NonEmpty(meta[field]) THEN meta[field]
    ELSE NoGroup

\* C13: the metadata of a block-structured document has, for each of title,
\* contract_number, currency, dates, client_name and vendor_name, the value of
\* the first block in document order that matches the field; a match in a later
\* block never replaces it.
FirstMatchWins ==
    parse_pc = "parsed" /\ doc.kind = "json" =>
        \A field \in Fields : FieldOf(metadata, field) = FirstMatch(doc.blocks, field)

\* ---------------------------------------------------------- the confidence

\* The most bold pairs and the most clause words in a document
MaxSections == 6
MaxClauses == 4

\* Bold pairs with different names, and words of self.section_headers
PairLines == <<<<"*", "*", "a", ":", "*", "*", " ", "v">>, <<"*", "*", "b", ":", "*", "*", " ", "v">>, <<"*", "*", "c", ":", "*", "*", " ", "v">>, <<"*", "*", "d", ":", "*", "*", " ", "v">>, <<"*", "*", "e", ":", "*", "*", " ", "v">>, <<"*", "*", "f", ":", "*", "*", " ", "v">>, <<"*", "*", "g", ":", "*", "*", " ", "v">>, <<"*", "*", "h", ":", "*", "*", " ", "v">>>>

ClauseLines == <<<<"f", "o", "r", "o">>, <<"s", "i", "g", "i", "l", "o">>, <<"p", "r", "a", "z", "o">>, <<"t", "e", "r", "m", "o">>, <<"d", "e", "v", "e", "r", "e", "s">>, <<"d", "i", "s", "p", "u", "t", "a", "s">>>>

\* The lines a document may start with: a title, an empty title, a contract
\* number, a date; and may end with: a client, a vendor
TitleLines == { <<"#", " ", "T">>, <<"#", " ", " ">> }
NumberLine == <<"R", "e", "f", ":", " ", "X", "-", "1">>
DateLine == <<"1", "/", "2", "/", "2", "0", "2", "4">>
ClientLine == <<"C", "l", "i", "e", "n", "t", ":", " ", "A", "c", "m", "e">>
VendorLine == <<"V", "e", "n", "d", "o", "r", ":", " ", "B", "e", "t", "a">>

Optional(line, present) == IF present THEN <<line>> ELSE <<>>

\* A markdown file with the chosen lines, ns bold pairs and nc clause words
ConfidenceDoc(titles, number, date, has_client, vendor, ns, nc) ==
    LinesDoc(titles \o Optional(NumberLine, number) \o Optional(DateLine, date)
                 \o SubSeq(PairLines, 1, ns) \o SubSeq(ClauseLines, 1, nc)
                 \o Optional(ClientLine, has_client) \o Optional(VendorLine, vendor))

\* The numbers of bold pairs and of clause words: one of them runs through its
\* range while the other is 0, and both are at their most
Counts ==
    {<<ns, 0>> : ns \in 0..MaxSections} \cup {<<0, nc>> : nc \in 0..MaxClauses}
        \cup {<<MaxSections, MaxClauses>>}

ConfidenceDocs ==
    {ConfidenceDoc(titles, flags[1], flags[2], flags[3], flags[4], n[1], n[2]) :
         titles \in {<<>>} \cup {<<t>> : t \in TitleLines},
         flags \in [1..4 -> BOOLEAN],
         n \in Counts}

InitConfidence == ParseInit(ConfidenceDocs) /\ DedupIdle /\ AmountIdle /\ ExtractIdle /\ ValidateIdle /\ BatchIdle /\ LlmIdle /\ SanitizeIdle /\ OrganizeIdle /\ HandlerIdle /\ ChunkIdle

SpecConfidence == InitConfidence /\ [][ParseFromMarkdown]_vars

\* 1 if the condition holds and 0 otherwise
Indicator(present) == IF present THEN 1 ELSE 0

\* Ninety times (t + n + p + d + min(S/5, 1) + min(C/3, 1)) / 6
NinetyTimesClaimed(t, n, p, d, S, C) ==
    15 * (t + n + p + d) + (IF S >= 5 THEN 15 ELSE 3 * S) + (IF C >= 3 THEN 15 ELSE 5 * C)

\* The claimed value for the metadata, sections and clauses of a parse
NinetyTimesExpected(meta, sections, clauses) ==
    NinetyTimesClaimed(Indicator(NonEmpty(meta.title)),
                       Indicator(NonEmpty(meta.contract_number)),
                       Indicator(NonEmpty(meta.client_name) /\ NonEmpty(meta.vendor_name)),
                       Indicator(meta.dates # <<>>),
                       Len(sections), Cardinality(clauses))

\* C14: _calculate_confidence returns exactly
\* (t + n + p + d + min(S/5, 1) + min(C/3, 1)) / 6, with t, n, d 1 when the
\* title, the contract number, a date is present, p 1 only when both parties
\* are, S sections and C key clauses; the result is in [0, 1], and sections and
\* clauses contribute 0 when both are empty.
ConfidenceIsTheAverage ==
    \A k \in 1..Len(contracts) :
        LET score == contracts[k].entities.parsing_metadata.confidence_score
            sections == contracts[k].entities.sections
            clauses == contracts[k].entities.extracted_entities.key_clauses
        IN  /\ 90 * score.num = score.den * NinetyTimesExpected(metadata, sections, clauses)
            /\ 0 <= score.num /\ score.num <= score.den
            /\ sections = <<>> /\ clauses = {} =>
                   score.num * 6
                     = score.den * (Indicator(NonEmpty(metadata.title))
                                      + Indicator(NonEmpty(metadata.contract_number))
                                      + Indicator(NonEmpty(metadata.client_name) /\ NonEmpty(metadata.vendor_name))
                                      + Indicator(metadata.dates # <<>>))

\* A parse with more than five sections, more than three clauses and every
\* other check met: the score is 1
FullConfidence ==
    \E k \in 1..Len(contracts) :
        /\ Len(contracts[k].entities.sections) > 5
        /\ Cardinality(contracts[k].entities.extracted_entities.key_clauses) > 3
        /\ NonEmpty(metadata.title) /\ NonEmpty(metadata.contract_number)
        /\ NonEmpty(metadata.client_name) /\ NonEmpty(metadata.vendor_name)
        /\ metadata.dates # <<>>
        /\ contracts[k].entities.parsing_metadata.confidence_score.num
             = contracts[k].entities.parsing_metadata.confidence_score.den

\* ------------------------------------------------------------ the validator

\* A Contract instance is the record _create_contract_model builds, and with it
\*   aware   - the date fields whose datetime has a tzinfo (the parser's have none)
\*   invalid - the fields that were assigned, after construction, a value the
\*             model's type does not admit; Contract does not validate assignments
AsInstance(c) == c @@ [aware |-> {}, invalid |-> {}]

\* The fields of Contract a wrong value is assigned to, in the order of their
\* declaration
AssignedFields == <<"contract_number", "contract_name", "client_name", "total_value", "currency">>

\* f"Contract validation error: {err}" for the error of a field
ValidationErrorMessage(field) ==
    CASE field = "contract_number" -> "Contract validation error: contract_number"
      [] field = "contract_name" -> "Contract validation error: contract_name"
      [] field = "client_name" -> "Contract validation error: client_name"
      [] field = "total_value" -> "Contract validation error: total_value"
      [] field = "currency" -> "Contract validation error: currency"

\* e.errors() of the ValidationError model_validate raises: an error for each
\* field with an inadmissible value
RECURSIVE ValidationErrors(_, _)
ValidationErrors(c, k) ==
    IF k > Len(AssignedFields) THEN <<>>
    ELSE (IF AssignedFields[k] \in c.invalid THEN <<ValidationErrorMessage(AssignedFields[k])>> ELSE <<>>)
             \o ValidationErrors(c, k + 1)

\* `not x or x == 'N/A'`
MissingName(x) == x = <<>> \/ x = NotAvailable

\* `if condition: errors.append(message)`
ErrorIf(condition, message) == IF condition THEN <<message>> ELSE <<>>

\* `contract.effective_date and contract.expiration_date`: a datetime is true
BothDates(c) == c.effective_date # NoDate /\ c.expiration_date # NoDate

\* `>=` of a datetime with a tzinfo and one without raises TypeError
MixedAwareness(c) == ("effective_date" \in c.aware) # ("expiration_date" \in c.aware)

\* `contract.total_value <= 0`
NotPositive(x) ==
    \/ x.kind = "inf" /\ x.neg
    \/ x.kind = "num" /\ (x.neg \/ x.m = <<"0">>)

\* `if contract.entities:` a dict with a key is true
EntitiesChecked(ents) == DOMAIN ents # {}

\* SchemaValidator._validate_business_rules: the list it returns, or that the
\* comparison of the dates raised
validate_business_rules(c) ==
    [raised |-> BothDates(c) /\ MixedAwareness(c),
     errors |->
         ErrorIf(MissingName(c.contract_name), "Contract must have a valid name")
       \o ErrorIf(MissingName(c.contract_number), "Contract must have a valid contract number")
       \o ErrorIf(MissingName(c.client_name), "Contract must have a valid client name")
       \o ErrorIf(MissingName(c.vendor_name), "Contract must have a valid vendor name")
       \o ErrorIf(BothDates(c) /\ ~DateLess(c.effective_date, c.expiration_date),
                  "Effective date must be before expiration date")
       \o ErrorIf(c.total_value # None /\ NotPositive(c.total_value),
                  "Contract total value must be positive")
       \o ErrorIf(c.total_value # None /\ c.currency = <<>>,
                  "Contract must have currency when value is specified")
       \o ErrorIf(EntitiesChecked(c.entities) /\ "sections" \notin DOMAIN c.entities,
                  "Contract entities must include sections")
       \o ErrorIf(EntitiesChecked(c.entities) /\ "extracted_entities" \notin DOMAIN c.entities,
                  "Contract entities must include extracted entities")
       \o ErrorIf(EntitiesChecked(c.entities) /\ "parsing_metadata" \notin DOMAIN c.entities,
                  "Contract entities must include parsing metadata")]

\* SchemaValidator.validate_contract: a ValidationError of the model becomes
\* messages and the business rules are not reached; any other exception is not
\* caught. The Document of the Contract is valid and adds no message.
validate_contract(c) ==
    IF c.invalid # {} THEN [raised |-> FALSE, errors |-> ValidationErrors(c, 1)]
    ELSE IF validate_business_rules(c).raised THEN [raised |-> TRUE, errors |-> <<>>]
    ELSE [raised |-> FALSE, errors |-> validate_business_rules(c).errors]

\* confidence_score = 0.0
ZeroScore == [num |-> 0, den |-> 15 * total_checks]

\* contract.entities['parsing_metadata'].get('confidence_score', 0.0)
SummaryConfidence(ents) ==
    IF "parsing_metadata" \in DOMAIN ents /\ "confidence_score" \in DOMAIN ents.parsing_metadata
    THEN ents.parsing_metadata.confidence_score
    ELSE ZeroScore

\* len(entities.get('key_clauses', {}))
SummaryClauses(ents) ==
    IF "extracted_entities" \in DOMAIN ents /\ "key_clauses" \in DOMAIN ents.extracted_entities
    THEN Cardinality(ents.extracted_entities.key_clauses)
    ELSE 0

\* len(contract.entities['sections'])
SummarySections(ents) == IF "sections" \in DOMAIN ents THEN Len(ents.sections) ELSE 0

\* The dict get_validation_summary builds from the list of errors
Summary(c, errors, now) ==
    [raised |-> FALSE,
     is_valid |-> Len(errors) = 0,
     error_count |-> Len(errors),
     errors |-> errors,
     confidence_score |-> SummaryConfidence(c.entities),
     extracted_clauses |-> SummaryClauses(c.entities),
     section_count |-> SummarySections(c.entities),
     validation_timestamp |-> now,
     contract_type |-> c.contract_type,
     has_dates |-> c.effective_date # NoDate \/ c.expiration_date # NoDate,
     has_value |-> c.total_value # None]

\* SchemaValidator.get_validation_summary: what validate_contract raises passes
\* through it
get_validation_summary(c, now) ==
    IF validate_contract(c).raised THEN [raised |-> TRUE]
    ELSE Summary(c, validate_contract(c).errors, now)

\* The most assignments of inadmissible values to one Contract
MaxAssigned == 1

\* The names of the Contracts constructed: a text, none, and the placeholder
SomeName == <<"A", "c", "m", "e">>
NameValues == {<<>>, NotAvailable, SomeName}

\* The dates: three days, without and with a tzinfo
Days == {Date(2024, 1, 1), Date(2024, 6, 30), Date(2024, 12, 31)}

\* The values: none, -100.0, 0.0 and 5.0
TotalValues ==
    {None, Num(TRUE, <<"1">>, 2), Zero(FALSE), Num(FALSE, <<"5">>, 0)}

\* The entities of a Contract that was assembled, and maps with fewer keys
FullEntities ==
    [sections |-> <<[key |-> <<"k">>, value |-> <<"v">>]>>,
     extracted_entities |-> [key_clauses |-> {<<"f", "o", "r", "o">>}],
     parsing_metadata |->
         [parser_version |-> "1.0", extraction_date |-> 0,
          confidence_score |-> [num |-> 8, den |-> 15 * total_checks]]]

Restrict(f, keys) == [k \in keys |-> f[k]]

EntityMaps ==
    {Restrict(FullEntities, keys) : keys \in SUBSET DOMAIN FullEntities}
        \cup {[parsing_metadata |-> [parser_version |-> "1.0"], extracted_entities |-> <<>>]}

SomeDocument == create_document_model(MarkdownPath, <<"t", "e", "x", "t">>, 0, 0)

\* The Contracts constructed: every field has a value of its type
Constructed ==
    {[document |-> SomeDocument,
      contract_type |-> "msa",
      contract_number |-> names[1],
      contract_name |-> names[2],
      client_name |-> names[3],
      vendor_name |-> names[4],
      effective_date |-> effective[1],
      expiration_date |-> expiration[1],
      total_value |-> value,
      currency |-> currency,
      entities |-> ents,
      aware |-> (IF effective[2] THEN {"effective_date"} ELSE {})
                    \cup (IF expiration[2] THEN {"expiration_date"} ELSE {}),
      invalid |-> {}] :
         names \in {ns \in [1..4 -> NameValues] : Cardinality({i \in 1..4 : ns[i] # SomeName}) <= 2},
         effective \in {<<NoDate, FALSE>>} \cup (Days \X BOOLEAN),
         expiration \in {<<NoDate, FALSE>>} \cup ({Date(2024, 6, 30)} \X BOOLEAN),
         value \in TotalValues,
         currency \in {<<>>, DefaultCurrency},
         ents \in EntityMaps}

\* The files whose parse is handed to the validator
AssembledLines ==
    { <<"#", " ", "T">>, <<"R", "e", "f", ":", " ", "X", "-", "1">>, <<"1", "/", "2", "/", "2", "0", "2", "4">>, <<"3", "1", "/", "1", "2", "/", "2", "0", "2", "3">>, <<"C", "l", "i", "e", "n", "t", ":", " ", "A", "c", "m", "e", " ", "V", "e", "n", "d", "o", "r", ":", " ", "B", "e", "t", "a">>, <<"T", "o", "t", "a", "l", ":", " ", "0", " ", "U", "S", "D">> }

AssembledDocs ==
    {LinesDoc(ts) : ts \in UNION {[1..k -> AssembledLines] : k \in 0..MaxLines}}

\* A Contract is constructed, or a file is about to be parsed
ValidateInit ==
    \/ /\ contract \in Constructed
       /\ outcome = Pending
       /\ summary = Pending
       /\ validate_pc = "ready"
       /\ ParseIdle
    \/ /\ ValidateIdle
       /\ ParseInit(AssembledDocs)

\* The Contract a parse returned is handed to the validator
TakeParsed ==
    /\ parse_pc = "parsed"
    /\ validate_pc = "idle"
    /\ contract' = AsInstance(contracts[Len(contracts)])
    /\ validate_pc' = "ready"
    /\ UNCHANGED <<outcome, summary>>
    /\ UNCHANGED notValidateVars

\* contract.<field> = <a value of a wrong type>
Assign ==
    /\ validate_pc = "ready"
    /\ Cardinality(contract.invalid) < MaxAssigned
    /\ \E k \in DOMAIN AssignedFields :
           /\ AssignedFields[k] \notin contract.invalid
           /\ contract' = [contract EXCEPT !.invalid = @ \cup {AssignedFields[k]}]
    /\ UNCHANGED <<outcome, summary, validate_pc>>
    /\ UNCHANGED notValidateVars

\* SchemaValidator.validate_contract
ValidateContract ==
    /\ validate_pc = "ready"
    /\ outcome' = validate_contract(contract)
    /\ validate_pc' = "validated"
    /\ UNCHANGED <<contract, summary>>
    /\ UNCHANGED notValidateVars

\* SchemaValidator.get_validation_summary
GetValidationSummary ==
    /\ validate_pc = "ready"
    /\ summary' = get_validation_summary(contract, clock)
    /\ validate_pc' = "summarized"
    /\ UNCHANGED <<contract, outcome>>
    /\ UNCHANGED notValidateVars

ValidateNext ==
    \/ ParseFromMarkdown
    \/ TakeParsed
    \/ Assign
    \/ ValidateContract
    \/ GetValidationSummary

InitValidate == ValidateInit /\ DedupIdle /\ AmountIdle /\ ExtractIdle /\ BatchIdle /\ LlmIdle /\ SanitizeIdle /\ OrganizeIdle /\ HandlerIdle /\ ChunkIdle

SpecValidate == InitValidate /\ [][ValidateNext]_vars

\* ------------------------------------------------ properties of the validator

\* validate_contract returned this list
Returned == validate_pc = "validated" /\ ~outcome.raised

Reported(message) == message \in Range(outcome.errors)

\* C15: the list validate_contract returns has 'Effective date must be before
\* expiration date' if and only if both dates are present and effective_date
\* is not before expiration_date; stated here for the Contracts whose fields
\* all have a value of their type.
DateMessageIffNotBefore ==
    validate_pc = "validated" /\ contract.invalid = {} =>
        /\ Returned
        /\ Reported("Effective date must be before expiration date")
             <=> (BothDates(contract) /\ ~DateLess(contract.effective_date, contract.expiration_date))

\* C16: validate_contract returns a list and lets no exception reach its
\* caller, whatever the dates (with or without a tzinfo), the value, the
\* currency and the entities of the Contract and whichever fields were assigned
\* an inadmissible value; such fields appear as messages of the list.
ValidateNeverRaises ==
    validate_pc = "validated" =>
        /\ Returned
        /\ \A k \in DOMAIN AssignedFields :
               AssignedFields[k] \in contract.invalid =>
                   Reported(ValidationErrorMessage(AssignedFields[k]))

\* C17: for a structurally valid Contract the list has 'Contract total value
\* must be positive' if and only if total_value is present and not above 0, and
\* without a total_value it has neither the value nor the currency message.
ValueMessageIffNotPositive ==
    validate_pc = "validated" /\ contract.invalid = {} =>
        /\ Returned
        /\ Reported("Contract total value must be positive")
             <=> (contract.total_value # None /\ NotPositive(contract.total_value))
        /\ contract.total_value = None =>
               /\ ~Reported("Contract total value must be positive")
               /\ ~Reported("Contract must have currency when value is specified")

\* The message for a key the entities map must have
EntitiesMessage(key) ==
    CASE key = "sections" -> "Contract entities must include sections"
      [] key = "extracted_entities" -> "Contract entities must include extracted entities"
      [] key = "parsing_metadata" -> "Contract entities must include parsing metadata"

\* C18: validate_contract reports a message for each of 'sections',
\* 'extracted_entities' and 'parsing_metadata' that the entities map lacks, an
\* empty map included, and none of them when the map has all three.
MissingKeysReported ==
    validate_pc = "validated" /\ contract.invalid = {} =>
        /\ Returned
        /\ \A key \in {"sections", "extracted_entities", "parsing_metadata"} :
               Reported(EntitiesMessage(key)) <=> key \notin DOMAIN contract.entities

\* The message for a name that is missing
NameMessage(field) ==
    CASE field = "contract_name" -> "Contract must have a valid name"
      [] field = "contract_number" -> "Contract must have a valid contract number"
      [] field = "client_name" -> "Contract must have a valid client name"
      [] field = "vendor_name" -> "Contract must have a valid vendor name"

\* C19: for contract_name, contract_number, client_name and vendor_name the
\* list has the field's 'must have a valid ...' message if and only if the
\* field is empty or 'N/A'; so the 'N/A' the assembler stores for a number,
\* client or vendor that was not matched is always reported.
PlaceholdersReported ==
    validate_pc = "validated" /\ contract.invalid = {} =>
        /\ Returned
        /\ \A field \in {"contract_name", "contract_number", "client_name", "vendor_name"} :
               Reported(NameMessage(field))
                 <=> (contract[field] = <<>> \/ contract[field] = NotAvailable)

\* C20: the summary has is_valid exactly when validate_contract returns an
\* empty list, error_count the length of that list, section_count and
\* extracted_clauses the sizes of entities.sections and of
\* entities.extracted_entities.key_clauses (0 when absent), and
\* confidence_score the one of entities.parsing_metadata (0.0 when absent).
SummaryEchoesValidation ==
    validate_pc = "summarized" /\ contract.invalid = {} =>
        /\ ~summary.raised
        /\ ~validate_contract(contract).raised
        /\ summary.is_valid <=> validate_contract(contract).errors = <<>>
        /\ summary.error_count = Len(validate_contract(contract).errors)
        /\ summary.section_count
             = (IF "sections" \in DOMAIN contract.entities THEN Len(contract.entities.sections) ELSE 0)
        /\ summary.extracted_clauses
             = (IF "extracted_entities" \in DOMAIN contract.entities
                   /\ "key_clauses" \in DOMAIN contract.entities.extracted_entities
                THEN Cardinality(contract.entities.extracted_entities.key_clauses) ELSE 0)
        /\ IF "parsing_metadata" \in DOMAIN contract.entities
              /\ "confidence_score" \in DOMAIN contract.entities.parsing_metadata
           THEN summary.confidence_score = contract.entities.parsing_metadata.confidence_score
           ELSE summary.confidence_score.num = 0

\* ------------------------------------------------------ batch processing

\* The most paths handed to a batch
MaxBatch == 3

\* max_contracts when the caller gives none
DefaultMaxContracts == 10

BatchPaths == {"a.pdf", "b.pdf", "c.pdf"}

PathLists == UNION {[1..n -> BatchPaths] : n \in 0..MaxBatch}

\* random.sample(pdf_paths, max_contracts): the paths at max_contracts
\* different positions, in any order
Samples(paths, k) ==
    {[i \in 1..k |-> paths[at[i]]] :
        at \in {f \in [1..k -> DOMAIN paths] : \A i, j \in 1..k : i # j => f[i] # f[j]}}

\* What process_contract does for a path: it returns an operation, returns
\* None, or raises; analyze_contract returns an analysis or raises
ProcessOutcomes == {"operation", "none", "raises"}
AnalyzeOutcomes == {"analysis", "raises"}

Operation(path) == [operation |-> "rename", original_path |-> path]

\* ContractAnalysis()
EmptyAnalysis == [contract_id |-> "", raw_text |-> ""]
Analysis(path) == [contract_id |-> path, raw_text |-> "text"]

\* if operation: operations.append(operation)
Succeeded(ops, what, path) ==
    IF what = "operation" THEN Append(ops, Operation(path)) ELSE ops

MutantFailureNotCounted(failures, what, path) == failures

\* else: failed_contracts.append(pdf_path), and the same in the except branch
Failed(failures, what, path) ==
    IF what = "operation" THEN failures ELSE Append(failures, path)

\* results.append(analysis), or results.append(ContractAnalysis()) in the
\* except branch
Analyzed(rs, what, path) ==
    IF what = "analysis" THEN Append(rs, Analysis(path)) ELSE Append(rs, EmptyAnalysis)

BatchInit ==
    /\ pdf_paths \in PathLists
    /\ max_contracts \in (0..MaxBatch) \cup {DefaultMaxContracts}
    /\ selected_paths = <<>>
    /\ attempted = <<>>
    /\ operations = <<>>
    /\ failed_contracts = <<>>
    /\ results = <<>>
    /\ batch_pc = "input"

\* process_multiple_contracts up to its loop: the selection
SelectContracts ==
    /\ batch_pc = "input"
    /\ IF max_contracts < Len(pdf_paths)
       THEN selected_paths' \in Samples(pdf_paths, max_contracts)
       ELSE selected_paths' = pdf_paths
    /\ batch_pc' = "process"
    /\ UNCHANGED <<pdf_paths, max_contracts, attempted, operations, failed_contracts, results>>
    /\ UNCHANGED notBatchVars

\* One turn of process_multiple_contracts' loop
ProcessNextContract ==
    /\ batch_pc = "process"
    /\ Len(attempted) < Len(selected_paths)
    /\ \E what \in ProcessOutcomes :
           LET pdf_path == selected_paths[Len(attempted) + 1] IN
           /\ attempted' = Append(attempted, pdf_path)
           /\ operations' = Succeeded(operations, what, pdf_path)
           /\ failed_contracts' = Failed(failed_contracts, what, pdf_path)
    /\ UNCHANGED <<pdf_paths, max_contracts, selected_paths, results, batch_pc>>
    /\ UNCHANGED notBatchVars

\* The loop is over: logs and report are saved, operations is returned
ProcessReturn ==
    /\ batch_pc = "process"
    /\ Len(attempted) = Len(selected_paths)
    /\ batch_pc' = "processed"
    /\ UNCHANGED <<pdf_paths, max_contracts, selected_paths, attempted, operations, failed_contracts, results>>
    /\ UNCHANGED notBatchVars

\* batch_analyze is called: it goes through all the paths
BatchAnalyze ==
    /\ batch_pc = "input"
    /\ selected_paths' = pdf_paths
    /\ batch_pc' = "analyze"
    /\ UNCHANGED <<pdf_paths, max_contracts, attempted, operations, failed_contracts, results>>
    /\ UNCHANGED notBatchVars

\* One turn of batch_analyze's loop
AnalyzeNextContract ==
    /\ batch_pc = "analyze"
    /\ Len(attempted) < Len(selected_paths)
    /\ \E what \in AnalyzeOutcomes :
           LET pdf_path == selected_paths[Len(attempted) + 1] IN
           /\ attempted' = Append(attempted, pdf_path)
           /\ results' = Analyzed(results, what, pdf_path)
    /\ UNCHANGED <<pdf_paths, max_contracts, selected_paths, operations, failed_contracts, batch_pc>>
    /\ UNCHANGED notBatchVars

\* return results
AnalyzeReturn ==
    /\ batch_pc = "analyze"
    /\ Len(attempted) = Len(selected_paths)
    /\ batch_pc' = "analyzed"
    /\ UNCHANGED <<pdf_paths, max_contracts, selected_paths, attempted, operations, failed_contracts, results>>
    /\ UNCHANGED notBatchVars

BatchNext ==
    \/ SelectContracts
    \/ ProcessNextContract
    \/ ProcessReturn
    \/ BatchAnalyze
    \/ AnalyzeNextContract
    \/ AnalyzeReturn

InitBatch == BatchInit /\ DedupIdle /\ AmountIdle /\ ExtractIdle /\ ParseIdle /\ ValidateIdle /\ LlmIdle /\ SanitizeIdle /\ OrganizeIdle /\ HandlerIdle /\ ChunkIdle

SpecBatch == InitBatch /\ [][BatchNext]_vars

\* The analyses of results that are not the empty one
Successes(rs) == SelectSeq(rs, LAMBDA r : r # EmptyAnalysis)
Failures(rs) == SelectSeq(rs, LAMBDA r : r = EmptyAnalysis)

\* C21: a batch attempts the selected documents once each and in order; a
\* document that gives no result or raises is counted as failed and the next
\* one is attempted; when the batch returns every selected document was
\* attempted and successes plus failures are the number of selected documents.
BatchAttemptsEveryDocument ==
    /\ Len(attempted) <= Len(selected_paths)
    /\ attempted = SubSeq(selected_paths, 1, Len(attempted))
    /\ batch_pc \in {"process", "processed"} =>
           Len(operations) + Len(failed_contracts) = Len(attempted)
    /\ batch_pc \in {"analyze", "analyzed"} =>
           /\ Len(results) = Len(attempted)
           /\ Len(Successes(results)) + Len(Failures(results)) = Len(attempted)
    /\ batch_pc \in {"processed", "analyzed"} => attempted = selected_paths
    /\ batch_pc = "processed" =>
           /\ \A k \in DOMAIN operations : operations[k].original_path \in Range(selected_paths)
           /\ \A k \in DOMAIN failed_contracts : failed_contracts[k] \in Range(selected_paths)

\* Two documents failed, one returning nothing and one raising or both alike,
\* and the third was processed
BatchWentOnAfterFailures ==
    /\ batch_pc = "processed"
    /\ selected_paths = <<"b.pdf", "c.pdf", "a.pdf">>
    /\ failed_contracts = <<"b.pdf", "c.pdf">>
    /\ operations = <<Operation("a.pdf")>>

\* ------------------------------------------------- the LLM's response

\* str.find(word, start): the offset of the first occurrence at or after
\* start, or -1
Find(s, word, start) ==
    IF \E i \in (start + 1)..(Len(s) - Len(word) + 1) : SubSeq(s, i, i + Len(word) - 1) = word
    THEN (CHOOSE i \in (start + 1)..(Len(s) - Len(word) + 1) :
              /\ SubSeq(s, i, i + Len(word) - 1) = word
              /\ \A j \in (start + 1)..(i - 1) : SubSeq(s, j, j + Len(word) - 1) # word) - 1
    ELSE -1

\* s[a:b] for a >= 0; a negative b counts from the end
Slice(s, a, b) ==
    LET stop == IF b < 0 THEN Len(s) + b ELSE IF b > Len(s) THEN Len(s) ELSE b IN
    IF stop <= a THEN <<>> ELSE SubSeq(s, a + 1, stop)

\* The character U+0060, which a string of the model cannot hold
Backtick == "U+0060"

Fence == <<Backtick, Backtick, Backtick, "j", "s", "o", "n">>
FenceEnd == <<Backtick, Backtick, Backtick>>

\* The text handed to json.loads: what is between the fences, or the whole
\* response, stripped
JsonStr(response) ==
    IF Find(response, Fence, 0) # -1
    THEN Strip(Slice(response, Find(response, Fence, 0) + 7,
                     Find(response, FenceEnd, Find(response, Fence, 0) + 7)))
    ELSE Strip(response)

ObjectText == <<"{", "\"", "c", "o", "n", "t", "r", "a", "c", "t", "_", "i", "d", "\"", ":", "\"", "A", "-", "1", "\"", "}">>
EmptyObjectText == <<"{", "}">>
ArrayText == <<"[", "1", "]">>
NullText == <<"n", "u", "l", "l">>

JSONDecodeError == [kind |-> "JSONDecodeError"]

\* json.loads on the texts of the model: two objects, an array and null are
\* JSON, every other text of the model is not
json_loads(s) ==
    CASE s = ObjectText -> [kind |-> "dict", data |-> [contract_id |-> <<"A", "-", "1">>]]
      [] s = EmptyObjectText -> [kind |-> "dict", data |-> <<>>]
      [] s = ArrayText -> [kind |-> "list"]
      [] s = NullText -> [kind |-> "None"]
      [] OTHER -> JSONDecodeError

\* The responses of the service: JSON of the schema, bare and fenced, a fence
\* that is not closed, prose, JSON that is no object, and no llm_content at all
NoContent == [kind |-> "None"]
ApiError == [kind |-> "raised"]
Responses ==
    { ObjectText,
      EmptyObjectText,
      Fence \o <<"\n">> \o ObjectText \o <<"\n">> \o FenceEnd,
      <<"O", "k", ":", " ">> \o Fence \o ObjectText \o FenceEnd \o <<".">>,
      Fence \o ObjectText,
      <<"S", "o", "r", "r", "y">>,
      <<>>,
      ObjectText \o <<",">>,
      ArrayText,
      NullText }

Contents == {[kind |-> "str", text |-> r] : r \in Responses} \cup {NoContent, ApiError}

ContractTexts == {<<"C", "o", "n", "t", "r", "a", "c", "t", " ", "N", "o", ":", " ", "A", "-", "1">>, <<"A", "n", " ", "a", "g", "r", "e", "e", "m", "e", "n", "t", ".">>}

\* data.get(key), and data.get(key, default)
JsonGet(data, key, default) == IF key \in DOMAIN data THEN data[key] ELSE default

Returned_(value) == [kind |-> "returned", value |-> value]
Raised(error) == [kind |-> "raised", error |-> error]

\* The first contract-id pattern of _analyze_locally,
\* Contract\s+(No\.?|Number|#)\s*[:.]?\s*([A-Z0-9\-_]+) without regard to
\* case, for the one way the texts of the model write it: 'Contract No: <id>'
LocalIdLabel == <<"C", "o", "n", "t", "r", "a", "c", "t", " ", "N", "o", ":", " ">>
LocalIdChars ==
    {"A", "B", "C", "D", "E", "F", "G", "H", "I", "J", "K", "L", "M", "N", "O", "P", "Q", "R",
     "S", "T", "U", "V", "W", "X", "Y", "Z", "a", "b", "c", "d", "e", "f", "g", "h", "i", "j",
     "k", "l", "m", "n", "o", "p", "q", "r", "s", "t", "u", "v", "w", "x", "y", "z",
     "0", "1", "2", "3", "4", "5", "6", "7", "8", "9", "-", "_"}

LocalContractId(text) ==
    LET at == Find(Lower(text), Lower(LocalIdLabel), 0) IN
    IF at = -1 \/ RunLen(text, at + Len(LocalIdLabel) + 1, LocalIdChars) = 0
    THEN [kind |-> "None"]
    ELSE [kind |-> "str",
          text |-> SubSeq(text, at + Len(LocalIdLabel) + 1,
                          at + Len(LocalIdLabel) + RunLen(text, at + Len(LocalIdLabel) + 1, LocalIdChars))]

\* ContractAnalyzer._analyze_locally: the analysis the patterns give
analyze_locally(text) ==
    [contract_id |-> LocalContractId(text), raw_text |-> text, method |-> "local"]

OptionalText(x) == IF x = [kind |-> "None"] THEN x ELSE [kind |-> "str", text |-> x]

\* ContractAnalyzer._parse_openai_response
parse_openai_response(response, original_text) ==
    IF response.kind # "str"
    THEN Raised("TypeError")
    ELSE IF json_loads(JsonStr(response.text)) = JSONDecodeError
    THEN Returned_(analyze_locally(original_text))
    ELSE IF json_loads(JsonStr(response.text)).kind # "dict"
    THEN Raised("AttributeError")
    ELSE Returned_([contract_id |-> OptionalText(JsonGet(json_loads(JsonStr(response.text)).data,
                                                         "contract_id", [kind |-> "None"])),
                    raw_text |-> original_text,
                    method |-> "openai"])

\* ContractAnalyzer._analyze_with_openai: every exception gives the local
\* analysis
analyze_with_openai(response, text) ==
    IF response = ApiError \/ parse_openai_response(response, text).kind = "raised"
    THEN Returned_(analyze_locally(text))
    ELSE parse_openai_response(response, text)

NoMetadata == [kind |-> "None"]

\* SmartContractProcessor.analyze_contract_with_openai: a ContractMetadata,
\* or None after any exception
analyze_contract_with_openai(response, text) ==
    IF response.kind # "str"
    THEN Returned_(NoMetadata)
    ELSE IF json_loads(JsonStr(response.text)).kind # "dict"
    THEN Returned_(NoMetadata)
    ELSE Returned_([contract_id |-> JsonGet(json_loads(JsonStr(response.text)).data,
                                            "contract_id", <<"U", "N", "K", "N", "O", "W", "N">>),
                    extraction_method |-> "openai"])

\* SmartContractProcessor.process_contract up to the analysis: no text or no
\* metadata end the processing of the document
process_contract_metadata(response, text) ==
    IF Strip(text) = <<>>
    THEN Returned_(NoMetadata)
    ELSE analyze_contract_with_openai(response, text)

LlmInit ==
    /\ contract_text \in ContractTexts
    /\ llm_content \in Contents
    /\ analysis = Pending
    /\ llm_pc = "asked"

ParseOpenaiResponse ==
    /\ llm_pc = "asked"
    /\ llm_content # ApiError
    /\ analysis' = parse_openai_response(llm_content, contract_text)
    /\ llm_pc' = "parsed"
    /\ UNCHANGED <<contract_text, llm_content>>
    /\ UNCHANGED notLlmVars

AnalyzeWithOpenai ==
    /\ llm_pc = "asked"
    /\ analysis' = analyze_with_openai(llm_content, contract_text)
    /\ llm_pc' = "analyzed"
    /\ UNCHANGED <<contract_text, llm_content>>
    /\ UNCHANGED notLlmVars

AnalyzeContractWithOpenai ==
    /\ llm_pc = "asked"
    /\ analysis' = analyze_contract_with_openai(llm_content, contract_text)
    /\ llm_pc' = "organizer"
    /\ UNCHANGED <<contract_text, llm_content>>
    /\ UNCHANGED notLlmVars

ProcessContractMetadata ==
    /\ llm_pc = "asked"
    /\ analysis' = process_contract_metadata(llm_content, contract_text)
    /\ llm_pc' = "processed"
    /\ UNCHANGED <<contract_text, llm_content>>
    /\ UNCHANGED notLlmVars

\* The next document is handed to the service
NextResponse ==
    /\ llm_pc \in {"parsed", "analyzed", "organizer", "processed"}
    /\ contract_text' \in ContractTexts
    /\ llm_content' \in Contents
    /\ analysis' = Pending
    /\ llm_pc' = "asked"
    /\ UNCHANGED notLlmVars

LlmNext ==
    \/ ParseOpenaiResponse
    \/ AnalyzeWithOpenai
    \/ AnalyzeContractWithOpenai
    \/ ProcessContractMetadata
    \/ NextResponse

InitLlm == LlmInit /\ DedupIdle /\ AmountIdle /\ ExtractIdle /\ ParseIdle /\ ValidateIdle /\ BatchIdle /\ SanitizeIdle /\ OrganizeIdle /\ HandlerIdle /\ ChunkIdle

SpecLlm == InitLlm /\ [][LlmNext]_vars

\* The response is a text that holds a JSON object
Parseable(response) ==
    /\ response.kind = "str"
    /\ json_loads(JsonStr(response.text)).kind = "dict"

\* C22: when the response of the service is not JSON of the schema, each of
\* the entry points returns without raising and what it returns is the
\* metadata the local patterns give for the document, never no metadata.
UnparseableGivesLocalMetadata ==
    llm_pc \in {"parsed", "organizer", "processed"} /\ llm_content.kind = "str" /\ ~Parseable(llm_content) =>
        /\ analysis.kind = "returned"
        /\ analysis.value # NoMetadata
        /\ llm_pc = "parsed" => analysis.value = analyze_locally(contract_text)

\* ------------------------------------------------------ safe filenames

\* The longest base name handed to sanitize_filename, in characters
MaxBaseName == 3

\* s has word at index i, letter for letter
HasAt(s, i, word) ==
    /\ i >= 1
    /\ i + Len(word) - 1 <= Len(s)
    /\ SubSeq(s, i, i + Len(word) - 1) = word

\* The characters beyond ASCII are written by their code point: U+5951 is the
\* first character of the Japanese word for contract
NonAscii ==
    {"U+3000", "U+3001", "U+3002", "U+3010", "U+3011", "U+30B5", "U+30B7", "U+30B9",
     "U+30C6", "U+30C8", "U+30DD", "U+30E0", "U+30FC", "U+4EF7", "U+5408", "U+540C",
     "U+5951", "U+5FA1", "U+62A5", "U+6301", "U+652F", "U+66F8", "U+6C42", "U+7528",
     "U+7A4D", "U+7CFB", "U+7D04", "U+7EDF", "U+898B", "U+8ACB", "U+904B", "U+FF08",
     "U+FF09"}

\* str.isascii()
IsAscii(s) == \A i \in DOMAIN s : s[i] \notin NonAscii

\* The white space str.strip() and \s know, U+3000 included
FilenameSpace == Whitespace \cup {"U+3000"}

RECURSIVE FilenameStrip(_)
FilenameStrip(s) ==
    IF s # <<>> /\ Head(s) \in FilenameSpace THEN FilenameStrip(Tail(s))
    ELSE IF s # <<>> /\ s[Len(s)] \in FilenameSpace THEN FilenameStrip(SubSeq(s, 1, Len(s) - 1))
    ELSE s

\* str.rfind('.'): the index of the last dot, or 0
LastDot(name) ==
    IF \E i \in DOMAIN name : name[i] = "."
    THEN CHOOSE i \in DOMAIN name : name[i] = "." /\ \A j \in (i + 1)..Len(name) : name[j] # "."
    ELSE 0

\* Path(filename).suffix and Path(filename).stem for a filename without a
\* directory
Suffix(name) ==
    IF 1 < LastDot(name) /\ LastDot(name) < Len(name)
    THEN SubSeq(name, LastDot(name), Len(name)) ELSE <<>>
Stem(name) == SubSeq(name, 1, Len(name) - Len(Suffix(name)))

\* term_map, in the order of the dict
term_map ==
    <<<<<<"U+3010">>, <<>>>>,
      <<<<"U+3011">>, <<>>>>,
      <<<<"U+5FA1", "U+898B", "U+7A4D", "U+66F8">>, <<"Q", "u", "o", "t", "a", "t", "i", "o", "n">>>>,
      <<<<"U+898B", "U+7A4D", "U+66F8">>, <<"Q", "u", "o", "t", "a", "t", "i", "o", "n">>>>,
      <<<<"U+898B", "U+7A4D">>, <<"E", "s", "t", "i", "m", "a", "t", "e">>>>,
      <<<<"U+8ACB", "U+6C42", "U+66F8">>, <<"I", "n", "v", "o", "i", "c", "e">>>>,
      <<<<"U+5951", "U+7D04">>, <<"C", "o", "n", "t", "r", "a", "c", "t">>>>,
      <<<<"U+5951", "U+7D04", "U+66F8">>, <<"C", "o", "n", "t", "r", "a", "c", "t">>>>,
      <<<<"U+30B7", "U+30B9", "U+30C6", "U+30E0">>, <<"S", "y", "s", "t", "e", "m">>>>,
      <<<<"U+904B", "U+7528">>, <<"O", "p", "e", "r", "a", "t", "i", "o", "n", "s">>>>,
      <<<<"U+30B5", "U+30DD", "U+30FC", "U+30C8">>, <<"S", "u", "p", "p", "o", "r", "t">>>>,
      <<<<"U+5408", "U+540C">>, <<"C", "o", "n", "t", "r", "a", "c", "t">>>>,
      <<<<"U+62A5", "U+4EF7">>, <<"Q", "u", "o", "t", "a", "t", "i", "o", "n">>>>,
      <<<<"U+7CFB", "U+7EDF">>, <<"S", "y", "s", "t", "e", "m">>>>,
      <<<<"U+652F", "U+6301">>, <<"S", "u", "p", "p", "o", "r", "t">>>>>>

\* delimiters
delimiters == <<"_", "-", " ", "U+3000", "U+3001", "U+3002", "U+FF08", "U+FF09">>

\* str.replace(k, v) for texts: the occurrences of k from the left, none of
\* them overlapping
RECURSIVE ReplaceText(_, _, _)
ReplaceText(s, k, v) ==
    IF s = <<>> THEN <<>>
    ELSE IF HasAt(s, 1, k) THEN v \o ReplaceText(SubSeq(s, Len(k) + 1, Len(s)), k, v)
    ELSE <<Head(s)>> \o ReplaceText(Tail(s), k, v)

\* [part.strip() for part in parts if part.strip() and len(part.strip()) > 1]
GoodParts(parts) ==
    SelectSeq([i \in DOMAIN parts |-> FilenameStrip(parts[i])], LAMBDA part : Len(part) > 1)

\* FileHandler._split_filename_for_translation: the parts at the first
\* delimiter that leaves any, or the whole name
RECURSIVE SplitFrom(_, _)
SplitFrom(name, d) ==
    IF d > Len(delimiters) THEN <<name>>
    ELSE IF (\E i \in DOMAIN name : name[i] = delimiters[d])
            /\ GoodParts(SplitAt(name, {delimiters[d]})) # <<>>
    THEN GoodParts(SplitAt(name, {delimiters[d]}))
    ELSE SplitFrom(name, d + 1)

split_filename_for_translation(name) == SplitFrom(name, 1)

\* for k, v in term_map.items(): if k in part: part = part.replace(k, v)
RECURSIVE MapTerms(_, _)
MapTerms(part, t) ==
    IF t > Len(term_map) THEN part
    ELSE MapTerms(ReplaceText(part, term_map[t][1], term_map[t][2]), t + 1)

\* mapped_parts.append(part if part else original_part)
MappedPart(part) == IF MapTerms(part, 1) # <<>> THEN MapTerms(part, 1) ELSE part

\* '_'.join(parts)
RECURSIVE JoinParts(_)
JoinParts(parts) ==
    IF parts = <<>> THEN <<>>
    ELSE IF Len(parts) = 1 THEN parts[1]
    ELSE parts[1] \o <<"_">> \o JoinParts(Tail(parts))

\* FileHandler._fallback_map_filename
fallback_map_filename(base_name) ==
    JoinParts([i \in DOMAIN split_filename_for_translation(base_name) |->
                  MappedPart(split_filename_for_translation(base_name)[i])])

\* \w: letters, digits and the underscore, the letters beyond ASCII included
WordChars == Letters \cup Digits \cup {"_"} \cup (NonAscii \ {"U+3010", "U+3011", "U+3000", "U+3001", "U+3002", "U+FF08", "U+FF09"})

\* re.sub(r'\s+', '_', text)
RECURSIVE SpaceRuns(_)
SpaceRuns(s) ==
    IF s = <<>> THEN <<>>
    ELSE IF Head(s) \in FilenameSpace
    THEN <<"_">> \o SpaceRuns(SubSeq(s, RunLen(s, 1, FilenameSpace) + 1, Len(s)))
    ELSE <<Head(s)>> \o SpaceRuns(Tail(s))

\* str.strip('_')
RECURSIVE StripUnderscores(_)
StripUnderscores(s) ==
    IF s # <<>> /\ Head(s) = "_" THEN StripUnderscores(Tail(s))
    ELSE IF s # <<>> /\ s[Len(s)] = "_" THEN StripUnderscores(SubSeq(s, 1, Len(s) - 1))
    ELSE s

\* FileHandler._clean_translated_text
clean_translated_text(text) ==
    StripUnderscores(SpaceRuns(
        [i \in DOMAIN Delete(text, {"\"", "'", Backtick}) |->
            IF Delete(text, {"\"", "'", Backtick})[i] \in WordChars \cup FilenameSpace \cup {"-"}
            THEN Delete(text, {"\"", "'", Backtick})[i] ELSE "_"]))

NoError == [kind |-> "None"]
Triple(name, status, error) == [kind |-> "returned", name |-> name, status |-> status, error |-> error]

\* The two branches of sanitize_filename that have no translation of every
\* part: the fallback mapping if it changes the name, or the name as it is
Fallback(filename_, cause) ==
    IF fallback_map_filename(Stem(filename_)) # <<>>
       /\ fallback_map_filename(Stem(filename_)) # Stem(filename_)
    THEN Triple(clean_translated_text(fallback_map_filename(Stem(filename_))) \o Suffix(filename_),
                "failed", <<"Translation failed: ", cause, " - applied fallback mapping">>)
    ELSE Triple(filename_, "failed",
                IF cause = "Partial translation failure"
                THEN <<"Partial translation failure - some parts could not be translated">>
                ELSE <<cause>>)

\* What the translation service gives for a part
Translated == <<"T", "r">>

\* The parts sanitize_filename hands to translate_text
ToTranslate(parts) == {i \in DOMAIN parts : FilenameStrip(parts[i]) # <<>> /\ ~IsAscii(parts[i])}

\* FileHandler.sanitize_filename; fails are the parts whose translation fails
sanitize_filename(filename_, client_, fails) ==
    IF IsAscii(Stem(filename_))
    THEN Triple(filename_, "success", NoError)
    ELSE IF client_ = "unset"
    THEN Raised("AttributeError")
    ELSE IF client_ = "None"
    THEN Fallback(filename_, "No translation service available")
    ELSE IF fails \cap ToTranslate(split_filename_for_translation(Stem(filename_))) = {}
    THEN Triple(clean_translated_text(JoinParts(
                    [i \in DOMAIN split_filename_for_translation(Stem(filename_)) |->
                        IF i \in ToTranslate(split_filename_for_translation(Stem(filename_)))
                        THEN Translated
                        ELSE split_filename_for_translation(Stem(filename_))[i]]))
                    \o Suffix(filename_),
                "success", NoError)
    ELSE Fallback(filename_, "Partial translation failure")

FilenameChars == {"U+5951", "U+7D04", "U+66F8", "U+3010", "U+3011", "_", "a"}

BaseNames == UNION {[1..n -> FilenameChars] : n \in 1..MaxBaseName}

Filenames == {base \o <<".", "p", "d", "f">> : base \in BaseNames}

SanitizeInit ==
    /\ client = "unset"
    /\ filename \in Filenames
    /\ sanitized = Pending
    /\ sanitize_pc = "new"

\* FileHandler._init_translation_services: without the library or a project
\* it returns before client is assigned; a failure assigns None
InitTranslationServices ==
    /\ sanitize_pc = "new"
    /\ client' \in {"unset", "None", "client"}
    /\ sanitize_pc' = "ready"
    /\ UNCHANGED <<filename, sanitized>>
    /\ UNCHANGED notSanitizeVars

\* fh.client = None, as the repository's test does
AssignNoClient ==
    /\ sanitize_pc = "ready"
    /\ client = "unset"
    /\ client' = "None"
    /\ UNCHANGED <<filename, sanitized, sanitize_pc>>
    /\ UNCHANGED notSanitizeVars

SanitizeFilename ==
    /\ sanitize_pc = "ready"
    /\ \E fails \in SUBSET (1..MaxBaseName) :
           sanitized' = sanitize_filename(filename, client, fails)
    /\ sanitize_pc' = "sanitized"
    /\ UNCHANGED <<client, filename>>
    /\ UNCHANGED notSanitizeVars

SanitizeNext ==
    \/ InitTranslationServices
    \/ AssignNoClient
    \/ SanitizeFilename

InitSanitize == SanitizeInit /\ DedupIdle /\ AmountIdle /\ ExtractIdle /\ ParseIdle /\ ValidateIdle /\ BatchIdle /\ LlmIdle /\ OrganizeIdle /\ HandlerIdle /\ ChunkIdle

SpecSanitize == InitSanitize /\ [][SanitizeNext]_vars

\* The terms of the table that have an English word, and whether a name has one
EnglishTerms == {t \in DOMAIN term_map : term_map[t][2] # <<>>}
HasTerm(name, t) == \E i \in DOMAIN name : HasAt(name, i, term_map[t][1])

\* C23: when the translation service is not available or fails for a part, a
\* filename whose base name is not ASCII and has a term of the table gets a
\* triple, not an exception, with status 'failed' and an error text; a base
\* name that is one term of the table becomes that term's English word.
FallbackMapsKnownTerms ==
    ( /\ sanitize_pc = "sanitized"
      /\ ~IsAscii(Stem(filename))
      /\ \E t \in EnglishTerms : HasTerm(Stem(filename), t)
      /\ ~(sanitized.kind = "returned" /\ sanitized.status = "success") ) =>
        /\ sanitized.kind = "returned"
        /\ sanitized.status = "failed"
        /\ sanitized.error # NoError
        /\ \A t \in EnglishTerms :
               Stem(filename) = term_map[t][1] =>
                   sanitized.name = term_map[t][2] \o Suffix(filename)


\* ------------------------------------------------------ organizing the files

\* The most source files of one sequence of process_contract calls
MaxSources == 3

\* No file at a path
NoFile == [kind |-> "missing"]

\* The document a source file holds at the start
FileOf(path) == [kind |-> "file", of |-> path]

\* str.upper()
Upper(s) ==
    [i \in 1..Len(s) |->
        IF \E u \in DOMAIN UpperToLower : UpperToLower[u] = s[i]
        THEN CHOOSE u \in DOMAIN UpperToLower : UpperToLower[u] = s[i]
        ELSE s[i]]

\* c.isalnum() for the characters of the metadata
Alnum == Letters \cup Digits

MaxSupplierLen == 50

UnknownSupplier == <<"U", "n", "k", "n", "o", "w", "n">>

\* SmartContractProcessor._normalize_supplier_name
normalize_supplier_name(supplier) ==
    IF supplier = <<>> THEN UnknownSupplier
    ELSE LET normalized == Keep(Replace(Replace(supplier, " ", "_"), "-", "_"), Alnum \cup {"_"})
         IN  IF Len(normalized) > MaxSupplierLen THEN SubSeq(normalized, 1, MaxSupplierLen)
             ELSE normalized

UnknownType == <<"U", "N", "K", "N", "O", "W", "N">>
UnknownId == <<"U", "N", "K", "N", "O", "W", "N", "_", "I", "D">>
PdfSuffix == <<".", "p", "d", "f">>

\* start_year when both years are the same, else the two joined by '_'
YearRange(md) ==
    IF md.start_year = md.end_year THEN md.start_year
    ELSE md.start_year \o <<"_">> \o md.end_year

\* contract_id with ' ', '/' and '-' replaced by '_'; 'UNKNOWN_ID' when empty or 'null'
NormalizedId(contract_id) ==
    LET id == Replace(Replace(Replace(contract_id, " ", "_"), "/", "_"), "-", "_")
    IN  IF id = <<>> \/ id = NullText THEN UnknownId ELSE id

\* SmartContractProcessor._generate_contract_filename
generate_contract_filename(md) ==
    Keep(normalize_supplier_name(md.supplier) \o <<"_">>
             \o (IF md.contract_type # <<>> THEN Upper(md.contract_type) ELSE UnknownType) \o <<"_">>
             \o YearRange(md) \o <<"_">>
             \o NormalizedId(md.contract_id) \o PdfSuffix,
         Alnum \cup {".", "_", "-"})

\* SmartContractProcessor._determine_operation_type: every branch for an ASCII
\* name gives "rename"
determine_operation_type(original_filename) ==
    IF ~IsAscii(original_filename) THEN "translate" ELSE "rename"

\* The names of the source files, the second of them not ASCII
SourceStems == <<"a", "U+5951", "b", "c", "d">>

SourceNames == {<<SourceStems[i]>> \o PdfSuffix : i \in 1..MaxSources}

InputDir == <<"i", "n">>
OutputDir == <<"o", "u", "t">>
ProcessedDir == <<"p", "r", "o", "c", "e", "s", "s", "e", "d", "_", "c", "o", "n", "t", "r", "a", "c", "t", "s">>

\* A path is the list of its components
SourcePaths == {<<InputDir, name>> : name \in SourceNames}

\* Path(pdf_path).name
PathName(path) == path[Len(path)]

\* The metadata the analysis can return for a document
Suppliers == { <<"A", "c", "m", "e">> }
ContractIds == { <<"A", "-", "1">>, <<"A", "/", "1">>, <<"B", "2">> }
Years == { <<"2", "0", "2", "4">>, <<"2", "9", "9", "9">> }

Metadatas ==
    [supplier : Suppliers, contract_type : {<<"m", "s", "a">>}, contract_id : ContractIds,
     start_year : {<<"2", "0", "2", "4">>}, end_year : Years]

\* new_path = output_dir / "processed_contracts" / supplier / new_filename
NewPath(md, pdf_path) ==
    <<OutputDir, ProcessedDir, normalize_supplier_name(md.supplier), generate_contract_filename(md)>>

AllPaths ==
    SourcePaths \cup {NewPath(md, p) : md \in Metadatas, p \in SourcePaths}

\* shutil.copy2(src, dst): dst holds what src holds, whatever it held before
Copy2(fs, src, dst) == [fs EXCEPT ![dst] = fs[src]]

\* shutil.move(src, dst) of a file onto a file path: a rename that replaces dst
Move(fs, src, dst) == [Copy2(fs, src, dst) EXCEPT ![src] = NoFile]

ProcessingOperation(operation, original_path, new_path, md) ==
    [operation |-> operation,
     original_path |-> original_path,
     new_path |-> new_path,
     backup_path |-> IF operation = "translate" THEN original_path ELSE <<>>,
     metadata |-> md,
     reversible |-> TRUE]

OrganizeInit ==
    /\ file_system = [p \in AllPaths |-> IF p \in SourcePaths THEN FileOf(p) ELSE NoFile]
    /\ called_paths = {}
    /\ operations_log = <<>>
    /\ organize_pc = "ready"

\* process_contract on a source file not processed before, with no text
\* extracted or no metadata from the analysis: None, nothing on disk changes
ProcessContractFails ==
    /\ organize_pc = "ready"
    /\ \E pdf_path \in SourcePaths \ called_paths :
          called_paths' = called_paths \cup {pdf_path}
    /\ UNCHANGED <<file_system, operations_log, organize_pc>>
    /\ UNCHANGED notOrganizeVars

\* process_contract on a source file not processed before, with text and
\* metadata: the copy or the move, and the operation logged by the caller
ProcessContract ==
    /\ organize_pc = "ready"
    /\ \E pdf_path \in SourcePaths \ called_paths, md \in Metadatas :
          LET operation_type == determine_operation_type(PathName(pdf_path))
              new_path == NewPath(md, pdf_path)
          IN  /\ file_system[pdf_path] # NoFile
              /\ called_paths' = called_paths \cup {pdf_path}
              /\ file_system' = IF operation_type = "translate"
                                THEN Copy2(file_system, pdf_path, new_path)
                                ELSE Move(file_system, pdf_path, new_path)
              /\ operations_log' = Append(operations_log,
                     ProcessingOperation(operation_type, pdf_path, new_path, md))
    /\ UNCHANGED organize_pc
    /\ UNCHANGED notOrganizeVars

OrganizeNext == ProcessContractFails \/ ProcessContract

InitOrganize == OrganizeInit /\ DedupIdle /\ AmountIdle /\ ExtractIdle /\ ParseIdle /\ ValidateIdle /\ BatchIdle /\ LlmIdle /\ SanitizeIdle /\ HandlerIdle /\ ChunkIdle

SpecOrganize == InitOrganize /\ [][OrganizeNext]_vars

\* C25: after any sequence of process_contract calls on distinct source files,
\* for every logged operation the file at new_path holds the content of the
\* operation's own original document; after a 'translate' the original is still
\* at original_path; after a 'rename' original_path is empty, so that moving
\* new_path back restores the initial state.
OrganizationReversible ==
    \A i \in 1..Len(operations_log) :
        LET op == operations_log[i]
        IN  /\ file_system[op.new_path] = FileOf(op.original_path)
            /\ op.operation = "translate" =>
                   file_system[op.original_path] = FileOf(op.original_path)
            /\ op.operation = "rename" =>
                   Move(file_system, op.new_path, op.original_path)[op.original_path]
                       = FileOf(op.original_path)


\* ------------------------------------------------------------ the safe copy

\* The most files in the temp directory before a call
MaxTempFiles == 2

\* A file is its directory, its name and its content
File(dir, name, content) == [dir |-> dir, name |-> name, content |-> content]

\* Path.exists()
Exists(files, dir, name) == \E f \in files : f.dir = dir /\ f.name = name

ContentAt(files, dir, name) == (CHOOSE f \in files : f.dir = dir /\ f.name = name).content

MutantKeepFile(files, dir, name) == files

\* os.remove(path)
RemoveFile(files, dir, name) == {f \in files : ~(f.dir = dir /\ f.name = name)}

\* Writing a file replaces what was at its path
WriteFile(files, dir, name, content) == RemoveFile(files, dir, name) \cup {File(dir, name, content)}

\* shutil.copy2(src, dst) for a source that exists
CopyFile(files, src_dir, src_name, dst_dir, dst_name) ==
    WriteFile(files, dst_dir, dst_name, ContentAt(files, src_dir, src_name))

\* safe_filename.rsplit('.', 1) put together again with the counter: the
\* extension loses its dot
Numbered(safe_filename, counter) ==
    IF LastDot(safe_filename) > 0
    THEN SubSeq(safe_filename, 1, LastDot(safe_filename) - 1) \o <<"_">> \o StrOfNat(counter)
             \o SubSeq(safe_filename, LastDot(safe_filename) + 1, Len(safe_filename))
    ELSE safe_filename \o <<"_">> \o StrOfNat(counter)

\* The loop `while safe_path.exists()` of create_safe_copy
RECURSIVE UniqueName(_, _, _)
UniqueName(files, safe_filename, counter) ==
    IF ~Exists(files, "temp", safe_filename) THEN safe_filename
    ELSE UniqueName(files, Numbered(safe_filename, counter), counter + 1)

\* Hours between a failure and the retry
RetryDelayHours == 2

\* TranslationResult of _add_to_reprocessing_queue
TranslationResult(original_filename, translated_filename, error_message, time) ==
    [original_filename |-> original_filename,
     translated_filename |-> translated_filename,
     status |-> "failed",
     error_message |-> error_message,
     retry_after |-> time + RetryDelayHours,
     attempts |-> 0,
     last_attempt |-> time]

\* translation_queue[key] = result
QueuePut(queue, key, item) ==
    [k \in DOMAIN queue \cup {key} |-> IF k = key THEN item ELSE queue[k]]

\* The key of _add_to_reprocessing_queue: the filename and the time to the second
QueueKey(original_filename, time) == <<original_filename, time>>

\* FileHandler._add_to_reprocessing_queue: the queue
add_to_reprocessing_queue(queue, original_filename, fallback_filename, error_message, time) ==
    QueuePut(queue, QueueKey(original_filename, time),
             TranslationResult(original_filename, fallback_filename, error_message, time))

\* FileHandler._add_to_reprocessing_queue: the copy of Path(original_filename),
\* a path relative to the working directory, into the directory of the failed
\* files; a failure of the copy is caught
CopyToFailed(files, original_filename) ==
    IF Exists(files, "cwd", original_filename)
    THEN CopyFile(files, "cwd", original_filename, "failed", original_filename)
    ELSE files

\* FileHandler.create_safe_copy for the result of sanitize_filename: what it
\* raises, or the disk, the queue and the name of the copy it leaves
create_safe_copy(files, queue, file, triple, time) ==
    IF ~Exists(files, file.dir, file.name) THEN Raised("FileNotFoundError")
    ELSE IF triple.kind = "raised" THEN triple
    ELSE LET failed_ == triple.status = "failed"
             files1 == IF failed_ THEN CopyToFailed(files, file.name) ELSE files
             name == UniqueName(files1, triple.name, 1)
         IN  [kind |-> "returned",
              files |-> CopyFile(files1, file.dir, file.name, "temp", name),
              queue |-> IF failed_
                        THEN add_to_reprocessing_queue(queue, file.name, triple.name, triple.error, time)
                        ELSE queue,
              safe_path |-> name,
              status |-> triple.status]

\* What a processor function does with the safe copy
ProcessorActs == {"read", "write", "delete", "raise"}

Written == "written"

\* The disk after the processor function ran on the copy
Processed(files, name, act) ==
    IF act = "write" THEN WriteFile(files, "temp", name, Written)
    ELSE IF act = "delete" THEN RemoveFile(files, "temp", name)
    ELSE files

\* What the processor function returns, or raises
ProcessorOutcome(files, name, act) ==
    IF act = "raise" THEN Raised("ProcessorError")
    ELSE IF act = "read" THEN Returned_(ContentAt(files, "temp", name))
    ELSE Returned_(act)

\* The finally block of process_file_safely
CleanUp(files, name) ==
    IF Exists(files, "temp", name) THEN RemoveFile(files, "temp", name) ELSE files

\* The names of the files handed over: ASCII, with a term of the table, and
\* with nothing the table changes into a name
OriginalNames ==
    { <<"a">> \o PdfSuffix,
      <<"U+5951", "U+7D04">> \o PdfSuffix,
      <<"U+3010">> \o PdfSuffix }

\* Names that are in the temp directory before the call: names the copy would
\* take
TempNames ==
    { <<"a">> \o PdfSuffix,
      <<"C", "o", "n", "t", "r", "a", "c", "t">> \o PdfSuffix,
      <<"a", "_", "1", "p", "d", "f">> }

OldContent == "old"
OriginalContent == "original"

Originals == {File(dir, name, OriginalContent) : dir \in {"cwd", "temp"}, name \in OriginalNames}

TempFiles ==
    {{File("temp", name, OldContent) : name \in names} :
        names \in {ns \in SUBSET TempNames : Cardinality(ns) <= MaxTempFiles}}

DefaultMaxRetries == 3

NoQueue == [k \in {} |-> Pending]

SafeInit ==
    /\ translation_client \in {"unset", "None", "client"}
    /\ max_retries = DefaultMaxRetries
    /\ current_time = 0
    /\ translation_queue = NoQueue
    /\ original \in Originals
    /\ \E files \in TempFiles : disk = WriteFile(files, original.dir, original.name, original.content)
    /\ safe_path = <<>>
    /\ processor_result = Pending
    /\ safe_result = Pending
    /\ handler_pc = "ready"

\* FileHandler.process_file_safely when create_safe_copy raises: the exception
\* is wrapped and there is no safe_path for the finally block
ProcessFileSafelyNoCopy ==
    /\ handler_pc = "ready"
    /\ \E fails \in SUBSET (1..MaxBaseName) :
          LET copy == create_safe_copy(disk, translation_queue, original,
                          sanitize_filename(original.name, translation_client, fails), current_time)
          IN  /\ copy.kind = "raised"
              /\ safe_result' = Raised("Exception")
    /\ handler_pc' = "no copy"
    /\ UNCHANGED <<translation_client, max_retries, current_time, translation_queue, disk, original,
                   safe_path, processor_result>>
    /\ UNCHANGED notHandlerVars

\* FileHandler.process_file_safely: the copy, the processor function on the
\* copy, and the finally block
ProcessFileSafely ==
    /\ handler_pc = "ready"
    /\ \E fails \in SUBSET (1..MaxBaseName), act \in ProcessorActs :
          LET copy == create_safe_copy(disk, translation_queue, original,
                          sanitize_filename(original.name, translation_client, fails), current_time)
          IN  /\ copy.kind = "returned"
              /\ safe_path' = copy.safe_path
              /\ translation_queue' = copy.queue
              /\ processor_result' = ProcessorOutcome(copy.files, copy.safe_path, act)
              /\ disk' = CleanUp(Processed(copy.files, copy.safe_path, act), copy.safe_path)
              /\ safe_result' = IF processor_result'.kind = "raised" THEN Raised("Exception")
                                ELSE processor_result'
              /\ handler_pc' = IF processor_result'.kind = "raised" THEN "processor failed"
                               ELSE "returned"
    /\ UNCHANGED <<translation_client, max_retries, current_time, original>>
    /\ UNCHANGED notHandlerVars

SafeNext == ProcessFileSafelyNoCopy \/ ProcessFileSafely

InitSafe == SafeInit /\ DedupIdle /\ AmountIdle /\ ExtractIdle /\ ParseIdle /\ ValidateIdle /\ BatchIdle /\ LlmIdle /\ SanitizeIdle /\ OrganizeIdle /\ ChunkIdle

SpecSafe == InitSafe /\ [][SafeNext]_vars

MaxChunkText == 5

\* The largest max_length
MaxChunkLength == 3

\* The characters of the texts
ChunkChars == {"a", "."}

ChunkTexts == UNION {[1..n -> ChunkChars] : n \in 0..MaxChunkText}

MutantFirstPeriod(s, start, end) ==
    IF \E i \in start..(end - 1) : i < Len(s) /\ s[i + 1] = "."
    THEN CHOOSE i \in start..(end - 1) :
             /\ i < Len(s) /\ s[i + 1] = "."
             /\ \A j \in start..(i - 1) : s[j + 1] # "."
    ELSE -1

\* text.rfind('.', start, end): the offset of the last '.' of text[start:end],
\* or -1
RFindPeriod(s, start, end) ==
    IF \E i \in start..(end - 1) : i < Len(s) /\ s[i + 1] = "."
    THEN CHOOSE i \in start..(end - 1) :
             /\ i < Len(s) /\ s[i + 1] = "."
             /\ \A j \in (i + 1)..(end - 1) : j < Len(s) => s[j + 1] # "."
    ELSE -1

\* The end of the chunk that starts at start
ChunkEnd(s, max_len, start) ==
    IF start + max_len < Len(s) /\ RFindPeriod(s, start, start + max_len) > start
    THEN RFindPeriod(s, start, start + max_len) + 1
    ELSE start + max_len

\* text[start:end] for offsets from 0
Slice0(s, start, end) ==
    SubSeq(s, start + 1, IF end < Len(s) THEN end ELSE Len(s))

\* The loop of _chunk_text from start on, for at most `turns` turns: the
\* chunks when the loop ends, and whether it ended
RECURSIVE ChunkLoop(_, _, _, _, _)
ChunkLoop(s, max_len, start, acc, turns) ==
    IF ~(start < Len(s)) THEN [done |-> TRUE, chunks |-> acc]
    ELSE IF turns = 0 THEN [done |-> FALSE, chunks |-> acc]
    ELSE ChunkLoop(s, max_len, ChunkEnd(s, max_len, start),
                   Append(acc, [start |-> start,
                                text |-> Slice0(s, start, ChunkEnd(s, max_len, start))]),
                   turns - 1)

\* ContractEntityExtractor._chunk_text; a loop that has not ended after one
\* turn for each character never ends
chunk_text(s, max_len) == ChunkLoop(s, max_len, 0, <<>>, Len(s))

ChunkInit ==
    /\ chunk_input \in ChunkTexts
    /\ max_length \in 1..MaxChunkLength
    /\ chunks = Pending
    /\ chunk_pc = "input"

\* A call of _chunk_text
ChunkText ==
    /\ chunk_pc = "input"
    /\ chunks' = chunk_text(chunk_input, max_length)
    /\ chunk_pc' = "chunked"
    /\ UNCHANGED <<chunk_input, max_length>>
    /\ UNCHANGED notChunkVars

ChunkNext == ChunkText

InitChunk == ChunkInit /\ DedupIdle /\ AmountIdle /\ ExtractIdle /\ ParseIdle /\ ValidateIdle /\ BatchIdle /\ LlmIdle /\ SanitizeIdle /\ OrganizeIdle /\ HandlerIdle

SpecChunk == InitChunk /\ [][ChunkNext]_vars

\* The chunks one after the other
RECURSIVE ConcatChunks(_)
ConcatChunks(cs) == IF cs = <<>> THEN <<>> ELSE Head(cs).text \o ConcatChunks(Tail(cs))

\* The '.' of the text at offsets after start and inside the window of the
\* chunk that starts at start
PeriodsInWindow(s, max_len, start) ==
    {i \in (start + 1)..(start + max_len - 1) : i < Len(s) /\ s[i + 1] = "."}

\* C27: for every text and every max_length >= 1, _chunk_text ends and its
\* chunks are non-empty, at most max_length long, the first at offset 0, each
\* at the offset where the one before ended, and together they are the text;
\* a chunk whose window the text goes beyond and with a '.' after its first
\* character in the window ends right after the last such '.'.
ChunksPartitionText ==
    chunk_pc = "chunked" =>
        /\ chunks.done
        /\ ConcatChunks(chunks.chunks) = chunk_input
        /\ \A k \in 1..Len(chunks.chunks) :
               LET c == chunks.chunks[k]
               IN  /\ Len(c.text) >= 1
                   /\ Len(c.text) <= max_length
                   /\ c.start = IF k = 1 THEN 0
                                ELSE chunks.chunks[k - 1].start + Len(chunks.chunks[k - 1].text)
                   /\ ( /\ Len(chunk_input) > c.start + max_length
                        /\ PeriodsInWindow(chunk_input, max_length, c.start) # {} ) =>
                          \E p \in PeriodsInWindow(chunk_input, max_length, c.start) :
                              /\ \A q \in PeriodsInWindow(chunk_input, max_length, c.start) : q <= p
                              /\ c.start + Len(c.text) = p + 1

\* C27 witness: a text of several chunks, one cut after a '.' before the end
\* of its window and one that fills its window
ChunkCutAtPeriod ==
    /\ chunk_pc = "chunked"
    /\ Len(chunks.chunks) >= 2
    /\ \E k \in 1..Len(chunks.chunks) :
           /\ Len(chunks.chunks[k].text) < max_length
           /\ Len(chunk_input) > chunks.chunks[k].start + max_length
    /\ \E k \in 1..Len(chunks.chunks) : Len(chunks.chunks[k].text) = max_length


\* ------------------------------------------------------ the translation queue

\* The latest hour of the clock
MaxTime == 5

\* The largest max_retries of a handler
MaxRetries == 2

\* The most items in the queue
MaxQueue == 2

\* The most copies in the temp directory
MaxCopies == 2

\* The files create_safe_copy is called for: one with a name that is not ASCII,
\* one with an ASCII name
QueueFiles ==
    { File("cwd", <<"U+5951", "U+7D04">> \o PdfSuffix, OriginalContent),
      File("cwd", <<"a">> \o PdfSuffix, OriginalContent) }

\* The parts of a name whose translation fails: the names of QueueFiles have
\* one part
FailChoices == {{}, {1}}

\* sanitize_filename for the names of QueueFiles, worked out once
SanitizedNames ==
    [name \in {f.name : f \in QueueFiles} |->
        [client_ \in {"unset", "None", "client"} |->
            [fails \in FailChoices |-> sanitize_filename(name, client_, fails)]]]

QueueInit ==
    /\ translation_client \in {"unset", "None", "client"}
    /\ max_retries \in 1..MaxRetries
    /\ current_time = 0
    /\ translation_queue = NoQueue
    /\ disk = QueueFiles
    /\ original = <<>>
    /\ safe_path = <<>>
    /\ processor_result = Pending
    /\ safe_result = Pending
    /\ handler_pc = "ready"

\* Time passes
TimePasses ==
    /\ handler_pc = "ready"
    /\ current_time < MaxTime
    /\ current_time' = current_time + 1
    /\ UNCHANGED <<translation_client, max_retries, translation_queue, disk, original, safe_path,
                   processor_result, safe_result, handler_pc>>
    /\ UNCHANGED notHandlerVars

\* A new process constructs its FileHandler with the same arguments:
\* _init_translation_services leaves client unset, None or a client, and
\* _load_translation_queue reads the queue the process before saved
NewFileHandler ==
    /\ handler_pc = "ready"
    /\ translation_client' \in {"unset", "None", "client"}
    /\ translation_client' # translation_client
    /\ UNCHANGED <<max_retries, current_time, translation_queue, disk, original, safe_path,
                   processor_result, safe_result, handler_pc>>
    /\ UNCHANGED notHandlerVars

\* FileHandler.create_safe_copy
CreateSafeCopy ==
    /\ handler_pc = "ready"
    /\ Cardinality({f \in disk : f.dir = "temp"}) < MaxCopies
    /\ \E file \in QueueFiles, fails \in FailChoices :
          LET copy == create_safe_copy(disk, translation_queue, file,
                          SanitizedNames[file.name][translation_client][fails], current_time)
          IN  /\ original' = file
              /\ IF copy.kind = "raised"
                 THEN /\ safe_result' = copy
                      /\ UNCHANGED <<translation_queue, disk, safe_path>>
                 ELSE /\ Cardinality(DOMAIN copy.queue) <= MaxQueue
                      /\ safe_result' = Returned_(copy.status)
                      /\ translation_queue' = copy.queue
                      /\ disk' = copy.files
                      /\ safe_path' = copy.safe_path
    /\ UNCHANGED <<translation_client, max_retries, current_time, processor_result, handler_pc>>
    /\ UNCHANGED notHandlerVars

MutantReadyAtAnyAttempts(item, time, retries) ==
    item.status = "failed" /\ time >= item.retry_after

\* The condition of retry_failed_translations for an item to be retried; every
\* item has a retry_after
ReadyForRetry(item, time, retries) ==
    /\ item.status = "failed"
    /\ time >= item.retry_after
    /\ item.attempts < retries

\* One turn of the loop over items_to_retry, for the result of sanitize_filename
Retried(item, triple, time, retries) ==
    IF triple.kind = "raised"
    THEN [item EXCEPT !.attempts = item.attempts + 1,
                      !.last_attempt = time,
                      !.error_message = <<"Retry attempt failed: ", triple.error>>,
                      !.retry_after = time + RetryDelayHours]
    ELSE IF triple.status = "success"
    THEN [item EXCEPT !.attempts = item.attempts + 1,
                      !.last_attempt = time,
                      !.status = "success",
                      !.translated_filename = triple.name,
                      !.error_message = NoError]
    ELSE [item EXCEPT !.attempts = item.attempts + 1,
                      !.last_attempt = time,
                      !.status = IF item.attempts + 1 >= retries THEN "skipped" ELSE "failed",
                      !.error_message = triple.error,
                      !.retry_after = time + RetryDelayHours]

\* FileHandler.retry_failed_translations: every item that is ready is tried
\* once more
RetryFailedTranslations ==
    /\ handler_pc = "ready"
    /\ \E fails \in [DOMAIN translation_queue -> FailChoices] :
          translation_queue' =
              [k \in DOMAIN translation_queue |->
                  IF ReadyForRetry(translation_queue[k], current_time, max_retries)
                  THEN Retried(translation_queue[k],
                               SanitizedNames[translation_queue[k].original_filename]
                                             [translation_client][fails[k]],
                               current_time, max_retries)
                  ELSE translation_queue[k]]
    /\ UNCHANGED <<translation_client, max_retries, current_time, disk, original, safe_path,
                   processor_result, safe_result, handler_pc>>
    /\ UNCHANGED notHandlerVars

QueueNext ==
    \/ TimePasses
    \/ NewFileHandler
    \/ CreateSafeCopy
    \/ RetryFailedTranslations

InitQueue == QueueInit /\ DedupIdle /\ AmountIdle /\ ExtractIdle /\ ParseIdle /\ ValidateIdle /\ BatchIdle /\ LlmIdle /\ SanitizeIdle /\ OrganizeIdle /\ ChunkIdle

SpecQueue == InitQueue /\ [][QueueNext]_vars

\* retry_failed_translations is called again and again and time goes on
SpecQueueLive ==
    InitQueue /\ [][QueueNext]_vars /\ WF_vars(TimePasses) /\ WF_vars(RetryFailedTranslations)


\* An item is tried once more in a step
Reattempted(k) ==
    /\ k \in DOMAIN translation_queue'
    /\ translation_queue'[k].attempts # translation_queue[k].attempts

\* C29: after any calls of create_safe_copy and retry_failed_translations every
\* item of the queue has 0 <= attempts <= max_retries; an item is tried once
\* more only if its status is FAILED, the time is at or past its retry_after
\* and its attempts are below max_retries, and then its attempts grow by one.
RetryDiscipline ==
    /\ [](\A k \in DOMAIN translation_queue :
              /\ 0 <= translation_queue[k].attempts
              /\ translation_queue[k].attempts <= max_retries)
    /\ [][\A k \in DOMAIN translation_queue :
              Reattempted(k) =>
                  /\ translation_queue[k].status = "failed"
                  /\ current_time >= translation_queue[k].retry_after
                  /\ translation_queue[k].attempts < max_retries
                  /\ translation_queue'[k].attempts = translation_queue[k].attempts + 1]_vars

\* C29's case: an item was tried max_retries times, more than once
RetriedToTheLimit ==
    \E k \in DOMAIN translation_queue :
        /\ max_retries > 1
        /\ translation_queue[k].attempts = max_retries
        /\ translation_queue[k].status = "skipped"

Terminal(item) == item.status \in {"success", "skipped"}

\* Every item of the queue is through, or the time is at or past its retry_after
AllDue ==
    \A k \in DOMAIN translation_queue :
        Terminal(translation_queue[k]) \/ current_time >= translation_queue[k].retry_after

AllTerminal == \A k \in DOMAIN translation_queue : Terminal(translation_queue[k])

\* C30: when retry_failed_translations is called again and again while time
\* goes past every item's retry_after, every item of the queue ends with
\* status SUCCESS or SKIPPED; an item with one of the two is not tried again
\* and keeps its status; no item has status FAILED with attempts at max_retries.
EveryItemEndsTerminal ==
    /\ [](\A k \in DOMAIN translation_queue :
              translation_queue[k].status = "failed" =>
                  translation_queue[k].attempts < max_retries)
    /\ [][\A k \in DOMAIN translation_queue :
              Terminal(translation_queue[k]) =>
                  /\ k \in DOMAIN translation_queue'
                  /\ translation_queue'[k].status = translation_queue[k].status
                  /\ translation_queue'[k].attempts = translation_queue[k].attempts]_vars
    /\ ([]<>AllDue => <>[]AllTerminal)

====
